---------------------------- MODULE Spec2Model ----------------------------
(***************************************************************************)
(* A model of the protobuf source formatter of pkg/format (alg.go).        *)
(*                                                                         *)
(* Text is a sequence of one-character strings.  The formatter is the      *)
(* record f; every method of the Go type `formatter` is an operator that   *)
(* takes the formatter and returns the formatter after the call.           *)
(***************************************************************************)
EXTENDS Integers, Sequences, FiniteSets, TLC

VARIABLES
    f,          \* the formatter (struct formatter, alg.go:86-122)
    fileNode,   \* the file handed to NewFormatter
    pc,         \* position of the caller inside Run / among the API calls
    op,         \* the last formatter method the caller invoked
    other       \* the formatter saveState has returned, Nil when there is none

vars == <<f, fileNode, pc, op, other>>

-----------------------------------------------------------------------------
(* Bounds of the model.                                                    *)

MaxOut == 4         \* longest output of the token-level specifications
MaxIndent == 2      \* deepest indentation the token-level caller asks for
MaxErrs == 2        \* most errors joined into f.err by the token-level caller

-----------------------------------------------------------------------------
(* Strings.                                                                *)

NUL == "NUL"                \* the zero rune: lastWritten before any write
RuneError == "RuneError"    \* utf8.DecodeRuneInString("") yields RuneError
SP == " "
NL == "\n"
TAB == "\t"

WhiteSpace == {SP, NL, TAB, "\r"}

RECURSIVE Repeat(_, _)
Repeat(s, n) == IF n <= 0 THEN <<>> ELSE s \o Repeat(s, n - 1)

RECURSIVE TrimLeft(_)
TrimLeft(s) ==
    IF s = <<>> THEN s
    ELSE IF Head(s) \in WhiteSpace THEN TrimLeft(Tail(s)) ELSE s

RECURSIVE TrimRight(_)
TrimRight(s) ==
    IF s = <<>> THEN s
    ELSE IF s[Len(s)] \in WhiteSpace THEN TrimRight(SubSeq(s, 1, Len(s) - 1)) ELSE s

TrimSpace(s) == TrimRight(TrimLeft(s))

HasPrefix(s, p) == Len(s) >= Len(p) /\ SubSeq(s, 1, Len(p)) = p

TrimPrefix(s, p) == IF HasPrefix(s, p) THEN SubSeq(s, Len(p) + 1, Len(s)) ELSE s

Contains(s, c) == \E i \in 1..Len(s) : s[i] = c

newlineCount(value) == Cardinality({i \in 1..Len(value) : value[i] = NL})

-----------------------------------------------------------------------------
(* The formatter and its token writer.                                     *)

Nil == [type |-> "nil"]

\* f.out is what the sink has received.  f.mark runs parallel to f.out and
\* remembers, for each byte, how it got there: "s" a space written for the
\* pendingSpace flag, "i" text written while f.inline was set, "t" other text.
\* f.emitted logs the comments and declarations handed to the writers, and
\* the length of the output where the writing of a top-level declaration
\* begins ("gap") and where writeStart begins a node ("start").
NewFormatter ==
    [ out |-> <<>>, mark |-> <<>>, sinkFails |-> FALSE,
      indent |-> 0, lastWritten |-> NUL, previousNode |-> Nil,
      pendingSpace |-> FALSE, inCompactOptions |-> FALSE,
      pendingIndent |-> 0, inline |-> FALSE,
      err |-> <<>>, emitted |-> <<>>, panicked |-> FALSE ]

\* panic(e): the call of Run is abandoned.  A formatter that has panicked
\* writes nothing more and records nothing more.
Panic(g) == [g EXCEPT !.panicked = TRUE]

\* f.err = errors.Join(f.err, e)
JoinErr(g, e) == IF g.panicked THEN g ELSE [g EXCEPT !.err = Append(@, e)]

\* The statements of a function body run in order, each on the formatter the
\* one before it left: Then(g, Rest) is the rest of the body run on g, the
\* formatter that the statements so far have left.
Then(g, Rest(_)) == CHOOSE h \in { Rest(g0) : g0 \in {g} } : TRUE

\* f.writer.Write(bytes): the bytes reach the sink, or the write fails whole.
SinkWrite(g, bytes, tag) ==
    IF g.sinkFails THEN g
    ELSE [g EXCEPT !.out = @ \o bytes,
                   !.mark = @ \o [i \in 1..Len(bytes) |-> tag]]

\* The second half of WriteString: the text itself.
WriteElem(g, elem, tag) ==
    IF elem = <<>> THEN g
    ELSE IF g.sinkFails
         THEN JoinErr([g EXCEPT !.lastWritten = elem[Len(elem)]], "sink")
         ELSE SinkWrite([g EXCEPT !.lastWritten = elem[Len(elem)]], elem, tag)

WriteString(g, elem) ==
    IF g.panicked THEN g ELSE
    LET first == IF elem = <<>> THEN RuneError ELSE elem[1]
        prevBlockList == IF g.inline THEN {NUL, SP, TAB, NL, "<", "[", "{", "("}
                         ELSE {NUL, SP, TAB, NL}
        nextBlockList == IF g.inline THEN {NL, ";", ",", ")", "]", "}", ">"}
                         ELSE {NL, ";", ","}
    IN  IF g.pendingSpace /\ g.lastWritten \notin prevBlockList
                          /\ first \notin nextBlockList
        THEN IF g.sinkFails THEN JoinErr([g EXCEPT !.pendingSpace = FALSE], "sink")
             ELSE WriteElem(SinkWrite([g EXCEPT !.pendingSpace = FALSE], <<SP>>, "s"),
                            elem, IF g.inline THEN "i" ELSE "t")
        ELSE WriteElem([g EXCEPT !.pendingSpace = FALSE], elem,
                       IF g.inline THEN "i" ELSE "t")

Space(g) == [g EXCEPT !.pendingSpace = TRUE]

In(g) == [g EXCEPT !.indent = @ + 1]

Out_NoGuard(g) == [g EXCEPT !.indent = @ - 1]

Out(g) ==
    IF g.indent <= 0
    THEN JoinErr(g, "internal error: attempted to decrement indentation at zero")
    ELSE [g EXCEPT !.indent = @ - 1]

IsRune(node) == node.type = "RuneNode"

Indent(g, nextNode) ==
    IF g.lastWritten # NL THEN g
    ELSE IF IsRune(nextNode) /\ g.indent > 0 /\ nextNode.val[1] \in {"}", "]", ")", ">"}
         THEN WriteString(g, Repeat(<<SP, SP>>, g.indent - 1))
         ELSE WriteString(g, Repeat(<<SP, SP>>, g.indent))

\* P that moves the indentation by all of pendingIndent
P_AllPending(g, elem) ==
    Then(IF Len(TrimSpace(elem)) > 0 THEN WriteString(Indent(g, Nil), elem) ELSE g,
         LAMBDA g1 :
    Then(WriteString(g1, <<NL>>), LAMBDA g2 :
    [g2 EXCEPT !.indent = IF @ + g2.pendingIndent < 0 THEN 0 ELSE @ + g2.pendingIndent,
               !.pendingIndent = 0]))

P(g, elem) ==
    Then(IF Len(TrimSpace(elem)) > 0 THEN WriteString(Indent(g, Nil), elem) ELSE g,
         LAMBDA g1 :
    Then(WriteString(g1, <<NL>>), LAMBDA g2 :
    Then(IF g2.pendingIndent > 0 THEN In(g2)
         ELSE IF g2.pendingIndent < 0 THEN Out(g2) ELSE g2, LAMBDA g3 :
    [g3 EXCEPT !.pendingIndent = 0])))

SetPreviousNode(g, node) == [g EXCEPT !.previousNode = node]

\* f.saveState(newWriter): a formatter on a new, empty sink with the
\* fields of g that saveState copies; err is not among them.
saveState(g) ==
    [ NewFormatter EXCEPT
        !.indent = g.indent, !.lastWritten = g.lastWritten,
        !.previousNode = g.previousNode, !.pendingSpace = g.pendingSpace,
        !.inCompactOptions = g.inCompactOptions,
        !.pendingIndent = g.pendingIndent, !.inline = g.inline ]

\* f.mergeState(other, reader): io.Copy(f.writer, reader), whose result is
\* dropped, and then the fields of the other formatter that it copies.
mergeState(g, o, reader) ==
    [ SinkWrite(g, reader, "t") EXCEPT
        !.indent = o.indent, !.lastWritten = o.lastWritten,
        !.previousNode = o.previousNode, !.pendingSpace = o.pendingSpace,
        !.inCompactOptions = o.inCompactOptions,
        !.pendingIndent = o.pendingIndent, !.inline = o.inline ]

\* writeRune on the rune itself (the node's Rune field).
writeRuneChar(g, r) ==
    IF r \in {"{", "[", "(", "<"}
    THEN WriteString([g EXCEPT !.pendingIndent = @ + 1], <<r>>)
    ELSE IF r \in {"}", "]", ")", ">"}
         THEN WriteString([g EXCEPT !.pendingIndent = @ - 1], <<r>>)
         ELSE WriteString(g, <<r>>)

-----------------------------------------------------------------------------
(* The syntax tree.  A terminal node carries its NodeInfo in its own       *)
(* fields: lead and trail (its comments) and lws (its leading whitespace). *)
(* A comment is [id, text, lws, virtual].                                  *)

TerminalTypes == {"RuneNode", "IdentNode", "StringLiteralNode", "UintLiteralNode"}

IsTerminal(node) == node.type \in TerminalTypes

\* &ast.RuneNode{Rune: r}: a rune the writers make up; the file holds no
\* comments or whitespace for it.
NewRune(r) ==
    [type |-> "RuneNode", val |-> <<r>>, lead |-> <<>>, trail |-> <<>>,
     lws |-> <<>>, virtual |-> FALSE]

\* The first and the last terminal of a node.
RECURSIVE FirstToken(_)
FirstToken(node) ==
    IF IsTerminal(node) THEN node
    ELSE IF node.type \in {"SyntaxNode", "EditionNode", "PackageNode", "ImportNode",
                           "ServiceNode", "RPCNode"} THEN node.keyword
    ELSE IF node.type = "OptionNode"
         THEN IF node.keyword # Nil THEN node.keyword ELSE FirstToken(node.name)
    ELSE IF node.type = "OptionNameNode" THEN FirstToken(node.parts[1])
    ELSE IF node.type = "FieldReferenceNode"
         THEN IF node.open # Nil THEN node.open ELSE node.name
    ELSE IF node.type = "RPCTypeNode" THEN node.openParen
    ELSE IF node.type = "CompoundStringLiteralNode" THEN node.elements[1]
    ELSE IF node.type = "MessageFieldNode" THEN FirstToken(node.name)
    ELSE IF node.type = "MessageLiteralNode" THEN node.open
    ELSE IF node.type \in {"ArrayLiteralNode", "CompactOptionsNode"}
         THEN node.openBracket
    ELSE Nil

RECURSIVE LastToken(_)
LastToken(node) ==
    IF IsTerminal(node) THEN node
    ELSE IF node.type \in {"SyntaxNode", "EditionNode", "PackageNode", "ImportNode"}
         THEN node.semicolon
    ELSE IF node.type = "OptionNode"
         THEN IF node.semicolon # Nil THEN node.semicolon ELSE LastToken(node.val)
    ELSE IF node.type \in {"ServiceNode", "RPCNode"}
         THEN IF node.semicolon # Nil THEN node.semicolon ELSE node.closeBrace
    ELSE IF node.type = "OptionNameNode" THEN LastToken(node.parts[Len(node.parts)])
    ELSE IF node.type = "FieldReferenceNode"
         THEN IF node.close # Nil THEN node.close ELSE node.name
    ELSE IF node.type = "RPCTypeNode" THEN node.closeParen
    ELSE IF node.type = "CompoundStringLiteralNode"
         THEN node.elements[Len(node.elements)]
    ELSE IF node.type = "MessageFieldNode"
         THEN IF node.semicolon # Nil THEN node.semicolon ELSE LastToken(node.val)
    ELSE IF node.type = "MessageLiteralNode" THEN node.close
    ELSE IF node.type \in {"ArrayLiteralNode", "CompactOptionsNode"}
         THEN node.closeBracket
    ELSE Nil

\* f.fileNode.NodeInfo(node): the leading comments and whitespace of the
\* node's first token, the trailing comments of its last one.
NodeInfo(node) ==
    LET first == FirstToken(node)
        last == LastToken(node)
    IN  [ lead |-> IF first = Nil THEN <<>> ELSE first.lead,
          lws |-> IF first = Nil THEN <<>> ELSE first.lws,
          trail |-> IF last = Nil THEN <<>> ELSE last.trail ]

\* isOpenBrace that knows the '{' only
isOpenBrace_BraceOnly(node) ==
    /\ node.type = "RuneNode"
    /\ node.val[1] = "{"

isOpenBrace(node) ==
    /\ node.type = "RuneNode"
    /\ node.val[1] \in {"{", "[", "<"}

\* What SetPreviousNode keeps of a node: its type, and its rune if it is one.
Prev(node) ==
    IF node.type = "RuneNode" THEN [type |-> "RuneNode", val |-> node.val]
    ELSE [type |-> node.type]

Log(g, what, id) == [g EXCEPT !.emitted = Append(@, [ev |-> what, id |-> id])]

-----------------------------------------------------------------------------
(* The comment engine.                                                     *)

\* strings.Split(s, "\n")
RECURSIVE SplitLines(_)
SplitLines(s) ==
    IF ~Contains(s, NL) THEN <<s>>
    ELSE LET i == CHOOSE k \in 1..Len(s) :
                     s[k] = NL /\ \A j \in 1..(k - 1) : s[j] # NL
         IN  <<SubSeq(s, 1, i - 1)>> \o SplitLines(SubSeq(s, i + 1, Len(s)))

\* strings.Join(lines, " ") after strings.TrimSpace of every line
RECURSIVE JoinTrimmed(_)
JoinTrimmed(lines) ==
    IF Len(lines) = 1 THEN TrimSpace(lines[1])
    ELSE TrimSpace(lines[1]) \o <<SP>> \o JoinTrimmed(Tail(lines))

\* unicode.IsLetter(r) || unicode.IsNumber(r), on the characters of the model
LettersAndNumbers ==
    {"a", "b", "c", "d", "x", "y", "z", "0", "1", "2", "3", "4", "5", "6", "7", "8", "9"}

isCommentPrefix(ch) == ch \notin LettersAndNumbers

TabStop == 8

RECURSIVE computeIndentFrom(_, _, _)
computeIndentFrom(s, i, indent) ==
    IF i > Len(s) THEN [indent |-> 0, ok |-> FALSE]
    ELSE IF s[i] = SP THEN computeIndentFrom(s, i + 1, indent + 1)
    ELSE IF s[i] = TAB
         THEN computeIndentFrom(s, i + 1, indent + TabStop - (indent % TabStop))
    ELSE [indent |-> indent, ok |-> TRUE]

computeIndent(s) ==
    IF TrimSpace(s) = <<"*", "/">> THEN [indent |-> 0, ok |-> FALSE]
    ELSE computeIndentFrom(s, 1, 0)

RECURSIVE unindentFrom(_, _, _, _)
unindentFrom(s, i, pos, n) ==
    IF i > Len(s) THEN <<>>
    ELSE IF pos = n THEN SubSeq(s, i, Len(s))
    ELSE IF pos > n THEN Repeat(<<SP>>, pos - n) \o SubSeq(s, i, Len(s))
    ELSE IF s[i] = SP THEN unindentFrom(s, i + 1, pos + 1, n)
    ELSE IF s[i] = TAB
         THEN unindentFrom(s, i + 1, pos + TabStop - (pos % TabStop), n)
    ELSE SubSeq(s, i, Len(s))

unindent(s, n) == unindentFrom(s, 1, 0, n)

\* The first loop of writeComment, lines[i] being the Go lines[i-1]: the
\* least indent of the lines after the first, -1 when none has one ...
RECURSIVE MinIndentFrom(_, _, _)
MinIndentFrom(lines, i, minIndent) ==
    IF i > Len(lines) THEN minIndent
    ELSE LET c == computeIndent(lines[i])
         IN  MinIndentFrom(lines, i + 1,
                 IF c.ok /\ (minIndent = -1 \/ c.indent < minIndent)
                 THEN c.indent ELSE minIndent)

\* ... and the prefix character those lines share, if any.
RECURSIVE PrefixFrom(_, _, _)
PrefixFrom(lines, i, prefix) ==
    IF i > Len(lines) THEN prefix
    ELSE IF i > 2 /\ Len(prefix) = 0 THEN PrefixFrom(lines, i + 1, prefix)
    ELSE LET line == TrimSpace(lines[i])
             linePrefix == IF Len(line) > 0 /\ isCommentPrefix(line[1])
                           THEN <<line[1]>> ELSE <<>>
         IN  IF line = <<"*", "/">> THEN PrefixFrom(lines, i + 1, prefix)
             ELSE PrefixFrom(lines, i + 1,
                      IF i = 2 THEN linePrefix
                      ELSE IF linePrefix # prefix THEN <<>> ELSE prefix)

\* The text the second loop writes for lines[i].
CommentLine(lines, i, prefix, minIndent) ==
    LET trimmedLine == TrimSpace(lines[i])
        line1 == IF trimmedLine = <<>> \/ trimmedLine = <<"*", "/">> \/ Len(prefix) > 0
                 THEN trimmedLine
                 ELSE TrimRight(unindent(lines[i], minIndent))
        line2 == IF i > 1 /\ line1 # <<"*", "/">>
                 THEN (IF Len(prefix) = 0 THEN <<SP, SP, SP>> ELSE <<SP>>) \o line1
                 ELSE line1
    IN  IF line2 = <<"*", "/">> /\ prefix = <<"*">> THEN <<SP>> \o line2 ELSE line2

RECURSIVE CommentLinesFrom(_, _, _, _, _)
CommentLinesFrom(g, lines, i, prefix, minIndent) ==
    IF i > Len(lines) THEN g
    ELSE IF i # Len(lines)
         THEN Then(P(g, CommentLine(lines, i, prefix, minIndent)), LAMBDA g1 :
              CommentLinesFrom(g1, lines, i + 1, prefix, minIndent))
         ELSE WriteString(Indent(g, Nil), CommentLine(lines, i, prefix, minIndent))

writeComment(g, comment) ==
    IF HasPrefix(comment, <<"/", "*">>) /\ newlineCount(comment) > 0
    THEN LET lines == SplitLines(comment)
             found == MinIndentFrom(lines, 2, -1)
         IN  CommentLinesFrom(g, lines, 1, PrefixFrom(lines, 2, <<>>),
                              IF found < 0 THEN 0 ELSE found)
    ELSE WriteString(Indent(g, Nil), TrimSpace(comment))

RECURSIVE MultilineFrom(_, _, _, _)
MultilineFrom(g, comments, i, compact) ==
    IF i > Len(comments) THEN g
    ELSE Then(IF ~compact /\ newlineCount(comments[i].lws) > 1 THEN P(g, <<>>) ELSE g,
              LAMBDA g1 :
         Then(writeComment(g1, comments[i].text), LAMBDA g2 :
         Then(Log(WriteString(g2, <<NL>>), "comment", comments[i].id), LAMBDA g3 :
         MultilineFrom(g3, comments, i + 1, FALSE))))

writeMultilineCommentsMaybeCompact(g, comments, forceCompact) ==
    MultilineFrom(g, comments, 1, forceCompact \/ isOpenBrace(g.previousNode))

writeMultilineComments(g, comments) ==
    writeMultilineCommentsMaybeCompact(g, comments, FALSE)

\* InlineText that leaves a block comment as it is in the source
InlineText_BlockUnchanged(text) ==
    IF HasPrefix(text, <<"/", "/">>)
    THEN <<"/", "*", SP>> \o TrimSpace(TrimPrefix(text, <<"/", "/">>)) \o <<SP, "*", "/">>
    ELSE text

InlineText(text) ==
    IF HasPrefix(text, <<"/", "/">>)
    THEN <<"/", "*", SP>> \o TrimSpace(TrimPrefix(text, <<"/", "/">>)) \o <<SP, "*", "/">>
    ELSE JoinTrimmed(SplitLines(text))

RECURSIVE InlineFrom(_, _, _)
InlineFrom(g, comments, i) ==
    IF i > Len(comments) THEN g
    ELSE IF comments[i].virtual THEN InlineFrom(g, comments, i + 1)
    ELSE Then(IF i > 1 \/ comments[i].lws # <<>> \/ g.lastWritten \in {";", "}"}
              THEN Space(g) ELSE g, LAMBDA g1 :
         Then(Log(WriteString(g1, InlineText(comments[i].text)), "comment",
                  comments[i].id), LAMBDA g2 :
         InlineFrom(g2, comments, i + 1)))

writeInlineComments(g, comments) == InlineFrom(g, comments, 1)

RECURSIVE TrailingEndFrom(_, _, _)
TrailingEndFrom(g, comments, i) ==
    IF i > Len(comments) THEN P(g, <<>>)
    ELSE Then(IF Len(comments[i].lws) > 0
              THEN IF Contains(comments[i].lws, NL) THEN P(g, <<>>)
                   ELSE IF i > 1 THEN Space(g) ELSE g
              ELSE g, LAMBDA g1 :
         Then(Log(writeComment(g1, comments[i].text), "comment", comments[i].id),
              LAMBDA g2 :
         TrailingEndFrom(g2, comments, i + 1)))

writeTrailingEndComments(g, comments) == TrailingEndFrom(g, comments, 1)

\* leadingCommentsContainBlankLine with > 0 in place of > 1: one newline
\* counts as a blank line.
leadingCommentsContainBlankLine_AnyNewline(n) ==
    LET info == NodeInfo(n)
    IN  \/ \E i \in 1..Len(info.lead) : newlineCount(info.lead[i].lws) > 0
        \/ newlineCount(info.lws) > 0

leadingCommentsContainBlankLine(n) ==
    LET info == NodeInfo(n)
    IN  \/ \E i \in 1..Len(info.lead) : newlineCount(info.lead[i].lws) > 1
        \/ newlineCount(info.lws) > 1

nodeHasComment(node) ==
    /\ node # Nil
    /\ LET info == NodeInfo(node)
       IN  Len(info.lead) > 0 \/ Len(info.trail) > 0

importHasComment(importNode) ==
    \/ nodeHasComment(importNode)
    \/ nodeHasComment(importNode.keyword)
    \/ nodeHasComment(importNode.name)
    \/ nodeHasComment(importNode.semicolon)
    \/ nodeHasComment(importNode.public)
    \/ nodeHasComment(importNode.weak)

-----------------------------------------------------------------------------
(* The node writers.                                                       *)

\* writeNode, writeInline, writeStartMaybeCompact, writeLineEnd and writeBodyEnd
\* call one another through the node writers.  They are cases of one
\* recursive operator, write; each keeps its name for its case, and its body
\* is the definition of that name with Body after it.
RECURSIVE write(_, _, _)

writeNode(g, node) == write(g, node, [way |-> "writeNode"])

writeInline(g, node) == write(g, node, [way |-> "writeInline"])

writeStartMaybeCompact(g, node, forceCompact) ==
    write(g, node, [way |-> "writeStartMaybeCompact", forceCompact |-> forceCompact])

writeLineEnd(g, node) == write(g, node, [way |-> "writeLineEnd"])

writeBodyEnd(g, node, semicolon, leadingEndline) ==
    write(g, node, [way |-> "writeBodyEnd", semicolon |-> semicolon,
                    leadingEndline |-> leadingEndline])

writeCompositeValueForArrayLiteral(g, compositeNode, lastElement) ==
    write(g, compositeNode, [way |-> "writeCompositeValueForArrayLiteral",
                             lastElement |-> lastElement])

writeStart(g, node) == writeStartMaybeCompact(g, node, FALSE)

writeLineElement(g, node) == writeBodyEnd(g, node, Nil, FALSE)

writeIdent(g, identNode) == WriteString(g, identNode.val)

writeRune(g, runeNode) == writeRuneChar(g, runeNode.val[1])

writeStringLiteral(g, stringLiteralNode) ==
    LET rawText == stringLiteralNode.val
        n == Len(rawText)
    IN  IF n > 1 /\ rawText[1] = "'" /\ rawText[n] = "'"
        THEN WriteString(g, [rawText EXCEPT ![1] = "\"", ![n] = "\""])
        ELSE WriteString(g, rawText)

writeSyntax(g, syntaxNode) ==
    Then(Space(writeStart(g, syntaxNode.keyword)), LAMBDA g1 :
    Then(Space(writeInline(g1, syntaxNode.equals)), LAMBDA g2 :
    Then(writeInline(g2, syntaxNode.syntax), LAMBDA g3 :
    writeLineEnd(g3, syntaxNode.semicolon))))

writeEdition(g, editionNode) ==
    Then(Space(writeStart(g, editionNode.keyword)), LAMBDA g1 :
    Then(Space(writeInline(g1, editionNode.equals)), LAMBDA g2 :
    Then(writeInline(g2, editionNode.edition), LAMBDA g3 :
    writeLineEnd(g3, editionNode.semicolon))))

writePackage(g, packageNode) ==
    Then(Space(writeStart(g, packageNode.keyword)), LAMBDA g1 :
    Then(IF packageNode.name # Nil THEN writeInline(g1, packageNode.name) ELSE g1,
         LAMBDA g2 :
    writeLineEnd(g2, packageNode.semicolon)))

writeImport(g, importNode, forceCompact) ==
    Then(Space(writeStartMaybeCompact(g, importNode.keyword, forceCompact)), LAMBDA g1 :
    Then(IF importNode.public # Nil \/ importNode.weak # Nil
         THEN Space(writeInline(g1, IF importNode.public # Nil THEN importNode.public
                                    ELSE importNode.weak))
         ELSE g1, LAMBDA g2 :
    Then(writeInline(g2, importNode.name), LAMBDA g3 :
    writeLineEnd(g3, importNode.semicolon))))

RECURSIVE CompoundStringFrom(_, _, _, _)
CompoundStringFrom(g, elements, i, hasTrailingPunctuation) ==
    IF i > Len(elements) THEN g
    ELSE IF hasTrailingPunctuation /\ i = Len(elements)
         THEN writeStart(g, elements[i])
         ELSE Then(writeLineElement(g, elements[i]), LAMBDA g1 :
              CompoundStringFrom(g1, elements, i + 1, hasTrailingPunctuation))

writeCompoundStringLiteral(g, node, needsIndent, hasTrailingPunctuation) ==
    Then(IF needsIndent THEN In(P(g, <<>>)) ELSE P(g, <<>>), LAMBDA g1 :
    Then(CompoundStringFrom(g1, node.elements, 1, hasTrailingPunctuation), LAMBDA g2 :
    IF needsIndent THEN Out(g2) ELSE g2))

writeCompoundStringLiteralIndent(g, node) ==
    writeCompoundStringLiteral(g, node, TRUE, FALSE)

writeCompoundStringLiteralIndentEndInline(g, node) ==
    writeCompoundStringLiteral(g, node, TRUE, TRUE)

\* The value of an option and, if the option has one, the ';' that ends it.
writeOptionValue(g, optionNode, endInline) ==
    Then(IF optionNode.val.type = "CompoundStringLiteralNode"
         THEN IF endInline THEN writeCompoundStringLiteralIndentEndInline(g, optionNode.val)
              ELSE writeCompoundStringLiteralIndent(g, optionNode.val)
         ELSE writeInline(g, optionNode.val), LAMBDA g1 :
    IF endInline THEN writeLineEnd(g1, optionNode.semicolon) ELSE g1)

writeFileOption(g, optionNode, forceCompact) ==
    Then(Space(writeStartMaybeCompact(g, optionNode.keyword, forceCompact)), LAMBDA g1 :
    Then(Space(writeNode(g1, optionNode.name)), LAMBDA g2 :
    Then(writeInline(g2, optionNode.equals), LAMBDA g3 :
    writeOptionValue(IF optionNode.val.type = "CompoundStringLiteralNode"
                     THEN g3 ELSE Space(g3), optionNode, TRUE))))

writeOptionPrefix(g, optionNode) ==
    Then(IF optionNode.keyword # Nil THEN Space(writeStart(g, optionNode.keyword))
         ELSE g, LAMBDA g1 :
    Then(IF optionNode.keyword # Nil THEN writeNode(g1, optionNode.name)
         ELSE writeStart(g1, optionNode.name), LAMBDA g2 :
    Space(writeInline(Space(g2), optionNode.equals))))

writeOption(g, optionNode) ==
    Then(writeOptionPrefix(g, optionNode), LAMBDA g1 :
    writeOptionValue(g1, optionNode, optionNode.semicolon # Nil))

\* The ')' of a field reference: its own if it has one, a made-up one if it
\* has a '(' only, none otherwise.
writeFieldReferenceClose(g, ref) ==
    IF ref.close # Nil THEN writeInline(g, ref.close)
    ELSE IF ref.open # Nil THEN writeInline(g, NewRune(")"))
    ELSE g

\* The first part of a compact option's name: the leading comments of its
\* first token are already written.
writeFirstCompactPart(g, ref) ==
    Then(writeNode(g, IF ref.open # Nil THEN ref.open ELSE ref.name), LAMBDA g1 :
    Then(IF ref.open # Nil
         THEN IF Len(ref.open.trail) > 0
              THEN writeInlineComments(g1, ref.open.trail) ELSE g1
         ELSE IF Len(ref.name.trail) > 0
              THEN writeInlineComments(g1, ref.name.trail) ELSE g1, LAMBDA g2 :
    Then(IF ref.open # Nil THEN writeInline(g2, ref.name) ELSE g2, LAMBDA g3 :
    writeFieldReferenceClose(g3, ref))))

RECURSIVE OptionNameFrom(_, _, _)
OptionNameFrom(g, parts, i) ==
    IF i > Len(parts) THEN g
    ELSE Then(IF g.inCompactOptions /\ i = 1 /\ parts[i].type = "FieldReferenceNode"
              THEN writeFirstCompactPart(g, parts[i])
              ELSE writeNode(g, parts[i]), LAMBDA g1 :
         OptionNameFrom(g1, parts, i + 1))

writeOptionName(g, optionNameNode) ==
    IF optionNameNode = Nil THEN g
    ELSE OptionNameFrom(g, optionNameNode.parts, 1)

writeFieldReference(g, ref) ==
    Then(IF ref.open # Nil THEN writeInline(g, ref.open) ELSE g, LAMBDA g1 :
    Then(writeInline(g1, ref.name), LAMBDA g2 :
    writeFieldReferenceClose(g2, ref)))

hasInteriorComments(nodes) ==
    \E i \in 1..Len(nodes) :
        \/ i > 1 /\ Len(NodeInfo(nodes[i]).lead) > 0
        \/ i < Len(nodes) /\ Len(NodeInfo(nodes[i]).trail) > 0

\* The leading comments of a token a writer keeps on the line of the text
\* before it, and the space that follows them.
writeLeadingInline(g, node) ==
    IF Len(node.lead) > 0
    THEN Then(writeInlineComments(g, node.lead), LAMBDA g1 :
         IF node.lws # <<>> THEN Space(g1) ELSE g1)
    ELSE g

writeOpenBracePrefix(g, openBrace) ==
    Then(writeLeadingInline(g, openBrace), LAMBDA g1 :
    Then(writeNode(g1, openBrace), LAMBDA g2 :
    Then(IF Len(openBrace.trail) > 0
         THEN writeTrailingEndComments(g2, openBrace.trail)
         ELSE P(g2, <<>>), LAMBDA g3 :
    SetPreviousNode(g3, Prev(openBrace)))))

RECURSIVE DeclsFrom(_, _, _)
DeclsFrom(g, decls, i) ==
    IF i > Len(decls) THEN g
    ELSE Then(writeNode(g, decls[i]), LAMBDA g1 : DeclsFrom(g1, decls, i + 1))

\* writeBody as writeCompositeTypeBody calls it: '{' through
\* writeOpenBracePrefix, '}' through writeBodyEnd, and an elementWriterFunc
\* that is nil when there are no declarations and otherwise writes each one
\* with writeNode.
writeCompositeTypeBody(g, openBrace, closeBrace, semicolon, decls) ==
    IF /\ openBrace # Nil
       /\ closeBrace # Nil
       /\ Len(decls) = 0
       /\ ~hasInteriorComments(<<openBrace, closeBrace>>)
    THEN Then(writeInline(g, openBrace), LAMBDA g1 :
         writeBodyEnd(g1, closeBrace, semicolon, TRUE))
    ELSE Then(IF openBrace # Nil THEN writeOpenBracePrefix(g, openBrace) ELSE g,
              LAMBDA g1 :
         Then(IF Len(decls) > 0 THEN DeclsFrom(g1, decls, 1) ELSE g1, LAMBDA g2 :
         IF closeBrace # Nil THEN writeBodyEnd(g2, closeBrace, semicolon, FALSE)
         ELSE g2))

writeService(g, serviceNode) ==
    Then(Space(writeStart(g, serviceNode.keyword)), LAMBDA g1 :
    Then(Space(writeInline(g1, serviceNode.name)), LAMBDA g2 :
    writeCompositeTypeBody(g2, serviceNode.openBrace, serviceNode.closeBrace,
                           serviceNode.semicolon, serviceNode.decls)))

writeRPC(g, rpcNode) ==
    Then(Space(writeStart(g, rpcNode.keyword)), LAMBDA g1 :
    Then(writeInline(g1, rpcNode.name), LAMBDA g2 :
    Then(Space(writeInline(g2, rpcNode.input)), LAMBDA g3 :
    Then(Space(writeInline(g3, rpcNode.returns)), LAMBDA g4 :
    Then(writeInline(g4, rpcNode.output), LAMBDA g5 :
    IF Len(rpcNode.decls) = 0
    THEN writeLineEnd(g5, NewRune(";"))
    ELSE writeCompositeTypeBody(Space(g5), rpcNode.openBrace, rpcNode.closeBrace,
                                rpcNode.semicolon, rpcNode.decls))))))

writeRPCType(g, rpcTypeNode) ==
    Then(writeInline(g, rpcTypeNode.openParen), LAMBDA g1 :
    Then(IF rpcTypeNode.stream # Nil
         THEN Space(writeInline(g1, rpcTypeNode.stream)) ELSE g1, LAMBDA g2 :
    Then(writeInline(g2, rpcTypeNode.messageType), LAMBDA g3 :
    writeInline(g3, rpcTypeNode.closeParen))))

-----------------------------------------------------------------------------
(* Composite values: message literals, array literals, compact options.    *)
(* A MessageLiteralNode is [open, elements, close, semicolon] and its      *)
(* elements are MessageFieldNodes [name, sep, val, semicolon]; an          *)
(* ArrayLiteralNode is [openBracket, elements, commas, closeBracket,       *)
(* semicolon], elements and commas being what Split returns; a             *)
(* CompactOptionsNode is [openBracket, options, closeBracket, semicolon].  *)

writeBodyEndInline(g, node, semicolon, leadingInline) ==
    IF ~IsTerminal(node) THEN writeNode(g, node)
    ELSE Then(IF leadingInline THEN writeLeadingInline(g, node)
              ELSE Indent(writeMultilineComments(g, node.lead), node), LAMBDA g1 :
         Then(writeNode(g1, node), LAMBDA g2 :
         Then(IF Len(node.trail) > 0 THEN writeInlineComments(g2, node.trail)
              ELSE IF semicolon # Nil /\ semicolon.virtual /\ Len(semicolon.trail) > 0
                   THEN writeInlineComments(g2, semicolon.trail)
                   ELSE g2, LAMBDA g3 :
         SetPreviousNode(g3, Prev(node)))))

writeOpenBracePrefixInline(g, openBrace) ==
    Then(writeLeadingInline(g, openBrace), LAMBDA g1 :
    Then(writeNode(g1, openBrace), LAMBDA g2 :
    Then(IF Len(openBrace.trail) > 0
         THEN writeInlineComments(g2, openBrace.trail) ELSE g2, LAMBDA g3 :
    SetPreviousNode(g3, Prev(openBrace)))))

writeOpenBracePrefixForArray(g, openBrace) ==
    Then(IF Len(openBrace.lead) > 0
         THEN writeMultilineComments(g, openBrace.lead) ELSE g, LAMBDA g1 :
    Then(writeNode(Indent(g1, openBrace), openBrace), LAMBDA g2 :
    Then(IF Len(openBrace.trail) > 0
         THEN writeTrailingEndComments(g2, openBrace.trail)
         ELSE P(g2, <<>>), LAMBDA g3 :
    SetPreviousNode(g3, Prev(openBrace)))))

messageLiteralShouldBeExpanded(messageLiteralNode) ==
    /\ Len(messageLiteralNode.elements) > 0
    /\ Contains(NodeInfo(messageLiteralNode.elements[1]).lws, NL)

arrayLiteralShouldBeExpanded(arrayLiteralNode) ==
    /\ Len(arrayLiteralNode.elements) > 0
    /\ Contains(NodeInfo(arrayLiteralNode.elements[1]).lws, NL)

\* The loop of maybeWriteCompactMessageLiteral over the fields.
RECURSIVE CompactFieldsFrom(_, _, _)
CompactFieldsFrom(g, elements, i) ==
    IF i > Len(elements) THEN g
    ELSE Then(writeInline(g, elements[i].name), LAMBDA g1 :
         Then(Space(IF elements[i].sep # Nil THEN writeInline(g1, elements[i].sep)
                    ELSE writeInline(g1, NewRune(":"))), LAMBDA g2 :
         Then(writeInline(g2, elements[i].val), LAMBDA g3 :
         Then(IF i < Len(elements)
              THEN Space(writeInline(g3, IF elements[i].semicolon = Nil
                                         THEN NewRune(",")
                                         ELSE elements[i].semicolon))
              ELSE g3, LAMBDA g4 :
         CompactFieldsFrom(g4, elements, i + 1)))))

\* maybeWriteCompactMessageLiteral when it writes, that is when the literal
\* should not be expanded.
maybeWriteCompactMessageLiteral(g, messageLiteralNode, inArrayLiteral) ==
    Then(IF inArrayLiteral THEN Indent(g, messageLiteralNode.open) ELSE g, LAMBDA g1 :
    Then(writeInline(g1, messageLiteralNode.open), LAMBDA g2 :
    Then(CompactFieldsFrom(g2, messageLiteralNode.elements, 1), LAMBDA g3 :
    writeInline(g3, messageLiteralNode.close))))

writeMessageFieldPrefix(g, messageFieldNode) ==
    Then(IF messageFieldNode.name.open # Nil
         THEN writeInline(writeStart(g, messageFieldNode.name.open),
                          messageFieldNode.name.name)
         ELSE writeStart(g, messageFieldNode.name.name), LAMBDA g1 :
    Then(writeFieldReferenceClose(g1, messageFieldNode.name), LAMBDA g2 :
    IF messageFieldNode.sep # Nil THEN writeInline(g2, messageFieldNode.sep) ELSE g2))

writeMessageField(g, messageFieldNode) ==
    Then(Space(writeMessageFieldPrefix(g, messageFieldNode)), LAMBDA g1 :
    IF messageFieldNode.val.type = "CompoundStringLiteralNode"
    THEN writeCompoundStringLiteralIndent(g1, messageFieldNode.val)
    ELSE writeLineEnd(g1, messageFieldNode.val))

writeMessageFieldWithSeparator(g, messageFieldNode) ==
    Then(Space(writeMessageFieldPrefix(g, messageFieldNode)), LAMBDA g1 :
    IF messageFieldNode.val.type = "CompoundStringLiteralNode"
    THEN writeCompoundStringLiteralIndentEndInline(g1, messageFieldNode.val)
    ELSE writeInline(g1, messageFieldNode.val))

\* columnFormatElements on a message literal.  The column aligner is no part
\* of the source at hand; a row is written as the loop that follows the
\* call in writeMessageLiteralElements writes it, and no column is padded.
RECURSIVE columnFormatMessageLiteral(_, _, _)
columnFormatMessageLiteral(g, elements, i) ==
    IF i > Len(elements) THEN g
    ELSE Then(IF elements[i].semicolon # Nil
              THEN writeLineEnd(writeMessageFieldWithSeparator(g, elements[i]),
                                elements[i].semicolon)
              ELSE writeNode(g, elements[i]), LAMBDA g1 :
         columnFormatMessageLiteral(g1, elements, i + 1))

writeMessageLiteralElements(g, messageLiteralNode) ==
    columnFormatMessageLiteral(g, messageLiteralNode.elements, 1)

\* The elementWriterFunc of writeArrayLiteral.
RECURSIVE ArrayElementsFrom(_, _, _, _, _)
ArrayElementsFrom(g, values, commas, i, inline) ==
    IF i > Len(values) THEN g
    ELSE IF ~IsTerminal(values[i])
    THEN Then(writeCompositeValueForArrayLiteral(
                  g, values[i], IF inline THEN FALSE ELSE i = Len(values)), LAMBDA g1 :
         Then(IF i = Len(values) THEN g1
              ELSE IF inline THEN Space(writeInline(g1, commas[i]))
              ELSE writeLineEnd(g1, commas[i]), LAMBDA g2 :
         ArrayElementsFrom(g2, values, commas, i + 1, inline)))
    ELSE IF i = Len(values)
    THEN IF inline THEN writeBodyEndInline(g, values[i], Nil, TRUE)
         ELSE writeLineElement(g, values[i])
    ELSE Then(writeStartMaybeCompact(g, values[i], inline), LAMBDA g1 :
         Then(IF inline THEN Space(writeInline(g1, commas[i]))
              ELSE writeLineEnd(g1, commas[i]), LAMBDA g2 :
         ArrayElementsFrom(g2, values, commas, i + 1, inline)))

\* columnFormatElements on a compact options list.  The column aligner is no
\* part of the source at hand; every option is written on a line of its own
\* and no column is padded.
RECURSIVE columnFormatCompactOptions(_, _, _)
columnFormatCompactOptions(g, options, i) ==
    IF i > Len(options) THEN g
    ELSE Then(writeLineEnd(g, options[i]), LAMBDA g1 :
         columnFormatCompactOptions(g1, options, i + 1))

\* The elementWriterFunc that writeBody is given: nil (Nil) when the value
\* has no elements, else the writer of the elements of the value.
elementWriterFunc(g, elements) ==
    CASE elements.type = "MessageLiteralNode" ->
            writeMessageLiteralElements(g, elements.node)
      [] elements.type = "ArrayLiteralNode" ->
            ArrayElementsFrom(g, elements.node.elements, elements.node.commas, 1,
                              elements.inline)
      [] elements.type = "CompactOptionsNode" ->
            columnFormatCompactOptions(g, elements.node.options, 1)

openBraceWriterFunc(g, openBrace, how) ==
    CASE how = "writeOpenBracePrefix" -> writeOpenBracePrefix(g, openBrace)
      [] how = "writeOpenBracePrefixInline" -> writeOpenBracePrefixInline(g, openBrace)
      [] how = "writeOpenBracePrefixForArray" ->
            writeOpenBracePrefixForArray(g, openBrace)

closeBraceWriterFunc(g, closeBrace, semicolon, leading, how) ==
    CASE how = "writeBodyEnd" -> writeBodyEnd(g, closeBrace, semicolon, leading)
      [] how = "writeBodyEndInline" ->
            writeBodyEndInline(g, closeBrace, semicolon, leading)

writeBody(g, openBrace, closeBrace, semicolon, elements, openHow, closeHow) ==
    IF /\ openBrace # Nil
       /\ closeBrace # Nil
       /\ elements = Nil
       /\ ~hasInteriorComments(<<openBrace, closeBrace>>)
    THEN Then(writeInline(g, openBrace), LAMBDA g1 :
         closeBraceWriterFunc(g1, closeBrace, semicolon, TRUE, closeHow))
    ELSE Then(IF openBrace # Nil THEN openBraceWriterFunc(g, openBrace, openHow)
              ELSE g, LAMBDA g1 :
         Then(IF elements # Nil THEN elementWriterFunc(g1, elements) ELSE g1,
              LAMBDA g2 :
         IF closeBrace # Nil
         THEN closeBraceWriterFunc(g2, closeBrace, semicolon, FALSE, closeHow)
         ELSE g2))

writeCompositeValueBody(g, openBrace, closeBrace, semicolon, elements, openHow) ==
    writeBody(g, openBrace, closeBrace, semicolon, elements, openHow,
              "writeBodyEndInline")

\* The elements of a value as writeBody is told of them.
ElementsOf(node, list, inline) ==
    IF Len(list) > 0 THEN [type |-> node.type, node |-> node, inline |-> inline]
    ELSE Nil

writeMessageLiteral(g, messageLiteralNode) ==
    IF ~messageLiteralShouldBeExpanded(messageLiteralNode)
    THEN maybeWriteCompactMessageLiteral(g, messageLiteralNode, FALSE)
    ELSE writeCompositeValueBody(
             g, messageLiteralNode.open, messageLiteralNode.close,
             messageLiteralNode.semicolon,
             ElementsOf(messageLiteralNode, messageLiteralNode.elements, FALSE),
             "writeOpenBracePrefix")

writeMessageLiteralForArray(g, messageLiteralNode, lastElement) ==
    IF ~messageLiteralShouldBeExpanded(messageLiteralNode)
    THEN Then(maybeWriteCompactMessageLiteral(g, messageLiteralNode, TRUE), LAMBDA g1 :
         IF lastElement THEN P(g1, <<>>) ELSE g1)
    ELSE writeBody(g, messageLiteralNode.open, messageLiteralNode.close,
                   messageLiteralNode.semicolon,
                   ElementsOf(messageLiteralNode, messageLiteralNode.elements, FALSE),
                   "writeOpenBracePrefixForArray",
                   IF lastElement THEN "writeBodyEnd" ELSE "writeBodyEndInline")

writeArrayLiteral(g, arrayLiteralNode) ==
    writeCompositeValueBody(
        g, arrayLiteralNode.openBracket, arrayLiteralNode.closeBracket,
        arrayLiteralNode.semicolon,
        ElementsOf(arrayLiteralNode, arrayLiteralNode.elements,
                   ~arrayLiteralShouldBeExpanded(arrayLiteralNode)),
        IF arrayLiteralShouldBeExpanded(arrayLiteralNode)
        THEN "writeOpenBracePrefix" ELSE "writeOpenBracePrefixInline")

RECURSIVE CompoundStringForArrayFrom(_, _, _, _)
CompoundStringForArrayFrom(g, elements, i, lastElement) ==
    IF i > Len(elements) THEN g
    ELSE IF ~lastElement /\ i = Len(elements) THEN writeStart(g, elements[i])
    ELSE Then(writeLineElement(g, elements[i]), LAMBDA g1 :
         CompoundStringForArrayFrom(g1, elements, i + 1, lastElement))

writeCompoundStringLiteralForArray(g, compoundStringLiteralNode, lastElement) ==
    CompoundStringForArrayFrom(g, compoundStringLiteralNode.elements, 1, lastElement)

\* The negative and the signed float literals are not among the values of
\* Files; their cases are left out.
writeCompositeValueForArrayLiteralBody(g, compositeNode, lastElement) ==
    CASE compositeNode.type = "CompoundStringLiteralNode" ->
            writeCompoundStringLiteralForArray(g, compositeNode, lastElement)
      [] compositeNode.type = "MessageLiteralNode" ->
            writeMessageLiteralForArray(g, compositeNode, lastElement)
      [] OTHER -> Panic(g)

compactOptionsShouldBeExpanded_CommentsOnly(compactOptionsNode) ==
    /\ Len(compactOptionsNode.options) > 0
    /\ hasInteriorComments(compactOptionsNode.options)

compactOptionsShouldBeExpanded(compactOptionsNode) ==
    /\ Len(compactOptionsNode.options) > 0
    /\ \/ Contains(NodeInfo(compactOptionsNode.options[1]).lws, NL)
       \/ hasInteriorComments(compactOptionsNode.options)

writeCompoundStringLiteralNoIndentEndInline(g, node) ==
    writeCompoundStringLiteral(g, node, FALSE, TRUE)

\* The loop of writeCompactOptions over the options of a list it writes on
\* one line, and the ']' after it.
RECURSIVE CompactOptionsFrom(_, _, _)
CompactOptionsFrom(g, compactOptionsNode, i) ==
    IF i > Len(compactOptionsNode.options)
    THEN writeInline(g, compactOptionsNode.closeBracket)
    ELSE IF /\ compactOptionsNode.options[i].name = Nil
            /\ compactOptionsNode.options[i].equals = Nil
            /\ compactOptionsNode.options[i].val = Nil
            /\ compactOptionsNode.options[i].semicolon # Nil
    THEN CompactOptionsFrom(g, compactOptionsNode, i + 1)
    ELSE Then(Space(writeInline(g, compactOptionsNode.options[i].name)), LAMBDA g1 :
         Then(IF compactOptionsNode.options[i].equals # Nil
              THEN writeInline(g1, compactOptionsNode.options[i].equals)
              ELSE g1, LAMBDA g2 :
         IF compactOptionsNode.options[i].val.type = "CompoundStringLiteralNode"
         THEN Then(writeCompoundStringLiteralNoIndentEndInline(
                       g2, compactOptionsNode.options[i].val), LAMBDA g3 :
              writeInline(g3, compactOptionsNode.closeBracket))
         ELSE Then(writeInline(Space(g2), compactOptionsNode.options[i].val),
                   LAMBDA g3 :
              Then(IF /\ compactOptionsNode.options[i].semicolon # Nil
                      /\ i < Len(compactOptionsNode.options)
                   THEN Space(writeInline(
                            g3, [compactOptionsNode.options[i].semicolon
                                 EXCEPT !.val = <<",">>]))
                   ELSE g3, LAMBDA g4 :
              CompactOptionsFrom(g4, compactOptionsNode, i + 1)))))

writeCompactOptions(g, compactOptionsNode) ==
    Then(IF /\ ~compactOptionsShouldBeExpanded(compactOptionsNode)
            /\ ~hasInteriorComments(compactOptionsNode.options)
         THEN IF Len(compactOptionsNode.options) > 0
              THEN Then(writeInline([g EXCEPT !.inCompactOptions = TRUE],
                                    compactOptionsNode.openBracket), LAMBDA g1 :
                   CompactOptionsFrom(g1, compactOptionsNode, 1))
              ELSE g
         ELSE writeCompositeValueBody(
                  [g EXCEPT !.inCompactOptions = TRUE],
                  compactOptionsNode.openBracket, compactOptionsNode.closeBracket,
                  compactOptionsNode.semicolon,
                  ElementsOf(compactOptionsNode, compactOptionsNode.options, FALSE),
                  "writeOpenBracePrefix"), LAMBDA g1 :
    [g1 EXCEPT !.inCompactOptions = FALSE])

writeUintLiteral(g, uintLiteralNode) == WriteString(g, uintLiteralNode.val)

\* writeField on a field whose type is a plain identifier.
writeField(g, fieldNode) ==
    Then(IF fieldNode.label # Nil
         THEN writeInline(Space(writeStart(g, fieldNode.label)), fieldNode.fieldType)
         ELSE writeStart(g, fieldNode.fieldType), LAMBDA g1 :
    Then(IF fieldNode.name # Nil
         THEN writeInline(Space(g1), fieldNode.name) ELSE g1, LAMBDA g2 :
    Then(IF fieldNode.equals # Nil
         THEN writeInline(Space(g2), fieldNode.equals) ELSE g2, LAMBDA g3 :
    Then(IF fieldNode.tag # Nil
         THEN writeInline(Space(g3), fieldNode.tag) ELSE g3, LAMBDA g4 :
    Then(IF fieldNode.options # Nil
         THEN writeNode(Space(g4), fieldNode.options) ELSE g4, LAMBDA g5 :
    writeLineEnd(g5, fieldNode.semicolon))))))

writeNodeBody(g, node) ==
    CASE node.type = "ArrayLiteralNode" -> writeArrayLiteral(g, node)
      [] node.type = "CompactOptionsNode" -> writeCompactOptions(g, node)
      [] node.type = "CompoundStringLiteralNode" ->
            writeCompoundStringLiteralIndentEndInline(g, node)
      [] node.type = "FieldNode" -> writeField(g, node)
      [] node.type = "FieldReferenceNode" -> writeFieldReference(g, node)
      [] node.type = "IdentNode" -> writeIdent(g, node)
      [] node.type = "ImportNode" -> writeImport(g, node, FALSE)
      [] node.type = "MessageFieldNode" -> writeMessageField(g, node)
      [] node.type = "MessageLiteralNode" -> writeMessageLiteral(g, node)
      [] node.type = "OptionNode" -> writeOption(g, node)
      [] node.type = "OptionNameNode" -> writeOptionName(g, node)
      [] node.type = "PackageNode" -> writePackage(g, node)
      [] node.type = "RPCNode" -> writeRPC(g, node)
      [] node.type = "RPCTypeNode" -> writeRPCType(g, node)
      [] node.type = "RuneNode" -> writeRune(g, node)
      [] node.type = "ServiceNode" -> writeService(g, node)
      [] node.type = "StringLiteralNode" -> writeStringLiteral(g, node)
      [] node.type = "SyntaxNode" -> writeSyntax(g, node)
      [] node.type = "EditionNode" -> writeEdition(g, node)
      [] node.type = "UintLiteralNode" -> writeUintLiteral(g, node)
      [] node.type = "EmptyDeclNode" -> g
      [] OTHER -> JoinErr(g, "unexpected node")

\* What writeStartMaybeCompact writes above a node: its leading comments and
\* the blank line it keeps.
writeStartLeading(g, node, forceCompact) ==
    IF Len(NodeInfo(node).lead) > 0
    THEN Then(writeMultilineCommentsMaybeCompact(g, NodeInfo(node).lead, forceCompact),
              LAMBDA g1 :
         IF ~forceCompact /\ newlineCount(NodeInfo(node).lws) > 1
         THEN P(g1, <<>>) ELSE g1)
    ELSE IF /\ ~(forceCompact \/ isOpenBrace(g.previousNode))
            /\ newlineCount(NodeInfo(node).lws) > 1
         THEN P(g, <<>>)
         ELSE g

writeStartMaybeCompactBody(g, node, forceCompact) ==
    Then(writeStartLeading(g, node, forceCompact), LAMBDA g1 :
    Then(writeNode(Indent(Log(g1, "start", Len(g1.out)), node), node), LAMBDA g2 :
    Then(IF Len(NodeInfo(node).trail) > 0
         THEN writeInlineComments(g2, NodeInfo(node).trail) ELSE g2, LAMBDA g3 :
    SetPreviousNode(g3, Prev(node)))))

writeInlineBody(g, node) ==
    IF ~IsTerminal(node)
    THEN [writeNode([g EXCEPT !.inline = TRUE], node) EXCEPT !.inline = FALSE]
    ELSE Then(writeLeadingInline([g EXCEPT !.inline = TRUE], node), LAMBDA g1 :
         Then(writeNode(g1, node), LAMBDA g2 :
         Then(writeInlineComments(g2, node.trail), LAMBDA g3 :
         [SetPreviousNode(g3, Prev(node)) EXCEPT !.inline = FALSE])))

\* A node that is no terminal, written by writeBodyEnd or writeLineEnd.
writeNodeAndNewline(g, node) ==
    Then(writeNode(g, node), LAMBDA g1 :
    IF g1.lastWritten # NL THEN P(g1, <<>>) ELSE g1)

writeBodyEndBody(g, node, semicolon, leadingEndline) ==
    IF ~IsTerminal(node) THEN writeNodeAndNewline(g, node)
    ELSE Then(IF leadingEndline THEN writeLeadingInline(g, node)
              ELSE Indent(writeMultilineComments(g, node.lead), node), LAMBDA g1 :
         Then(writeNode(g1, node), LAMBDA g2 :
         Then(IF Len(node.trail) > 0 THEN writeTrailingEndComments(g2, node.trail)
              ELSE IF semicolon # Nil /\ semicolon.virtual
                   THEN writeTrailingEndComments(Space(g2), semicolon.trail)
                   ELSE writeTrailingEndComments(g2, <<>>), LAMBDA g3 :
         SetPreviousNode(g3, Prev(node)))))

writeLineEndBody(g, node) ==
    IF ~IsTerminal(node) THEN writeNodeAndNewline(g, node)
    ELSE Then(writeLeadingInline(g, node), LAMBDA g1 :
         Then(Space(writeNode(g1, node)), LAMBDA g2 :
         Then(writeTrailingEndComments(g2, node.trail), LAMBDA g3 :
         SetPreviousNode(g3, Prev(node)))))

-----------------------------------------------------------------------------
(* The file header: package, sorted imports, sorted file options.          *)

\* The byte value of the characters that names are made of: Go compares
\* strings byte by byte.
Code(c) ==
    CASE c = "(" -> 40 [] c = ")" -> 41 [] c = "." -> 46 [] c = "/" -> 47
      [] c = "a" -> 97 [] c = "b" -> 98 [] c = "c" -> 99 [] OTHER -> 122

\* a < b on Go strings
RECURSIVE StrLess(_, _)
StrLess(a, b) ==
    IF b = <<>> THEN FALSE
    ELSE IF a = <<>> THEN TRUE
    ELSE IF Code(a[1]) < Code(b[1]) THEN TRUE
    ELSE IF Code(a[1]) > Code(b[1]) THEN FALSE
    ELSE StrLess(Tail(a), Tail(b))

\* importNode.Name.AsString(): the literal without its quotes
AsString(stringNode) == SubSeq(stringNode.val, 2, Len(stringNode.val) - 1)

importSortOrder(node) ==
    IF node.public # Nil THEN 2
    ELSE IF node.weak # Nil THEN 1
    ELSE 3

\* importLess with the last tie-break the other way round: the import
\* without a comment first.
importLess_UncommentedFirst(a, b) ==
    LET iName == AsString(a.name)
        jName == AsString(b.name)
        iOrder == importSortOrder(a)
        jOrder == importSortOrder(b)
    IN  IF StrLess(iName, jName) THEN TRUE
        ELSE IF StrLess(jName, iName) THEN FALSE
        ELSE IF iOrder > jOrder THEN TRUE
        ELSE IF iOrder < jOrder THEN FALSE
        ELSE importHasComment(b)

\* The less function writeFileHeader hands to sort.Slice for the imports.
importLess(a, b) ==
    LET iName == AsString(a.name)
        jName == AsString(b.name)
        iOrder == importSortOrder(a)
        jOrder == importSortOrder(b)
    IN  IF StrLess(iName, jName) THEN TRUE
        ELSE IF StrLess(jName, iName) THEN FALSE
        ELSE IF iOrder > jOrder THEN TRUE
        ELSE IF iOrder < jOrder THEN FALSE
        ELSE ~importHasComment(b)

StringForFieldReference(fieldReference) ==
    (IF fieldReference.open # Nil THEN <<"(">> ELSE <<>>)
    \o fieldReference.name.val
    \o (IF fieldReference.close # Nil THEN <<")">>
        ELSE IF fieldReference.open # Nil THEN <<")">> ELSE <<>>)

\* optionNameNode.FilterFieldReferences(): the parts that are no '.' rune
FilterFieldReferences(parts) == SelectSeq(parts, LAMBDA p : p.type = "FieldReferenceNode")

RECURSIVE JoinReferences(_, _)
JoinReferences(refs, j) ==
    IF j > Len(refs) THEN <<>>
    ELSE (IF j > 1 THEN <<".">> ELSE <<>>)
         \o StringForFieldReference(refs[j]) \o JoinReferences(refs, j + 1)

StringForOptionName(optionNameNode) ==
    IF optionNameNode = Nil THEN <<>>
    ELSE JoinReferences(FilterFieldReferences(optionNameNode.parts), 1)

\* optionLess without the rule that puts default options first.
optionLess_Lexicographic(a, b) ==
    StrLess(StringForOptionName(a.name), StringForOptionName(b.name))

\* optionLess with left <= right in place of left < right.
optionLess_NotStrict(a, b) ==
    LET left == StringForOptionName(a.name)
        right == StringForOptionName(b.name)
    IN  IF HasPrefix(left, <<"(">>) /\ ~HasPrefix(right, <<"(">>) THEN FALSE
        ELSE IF ~HasPrefix(left, <<"(">>) /\ HasPrefix(right, <<"(">>) THEN TRUE
        ELSE ~StrLess(right, left)

\* The less function writeFileHeader hands to sort.Slice for the options.
optionLess(a, b) ==
    LET left == StringForOptionName(a.name)
        right == StringForOptionName(b.name)
    IN  IF HasPrefix(left, <<"(">>) /\ ~HasPrefix(right, <<"(">>) THEN FALSE
        ELSE IF ~HasPrefix(left, <<"(">>) /\ HasPrefix(right, <<"(">>) THEN TRUE
        ELSE StrLess(left, right)

Less(kind, a, b) == IF kind = "import" THEN importLess(a, b) ELSE optionLess(a, b)

Swap(data, i, j) == [data EXCEPT ![i] = data[j], ![j] = data[i]]

\* sort.Slice on at most 12 elements is Go's insertionSortLessFunc:
\*   for i := a + 1; i < b; i++ {
\*     for j := i; j > a && less(j, j-1); j-- { swap(j, j-1) } }
RECURSIVE SiftDown(_, _, _)
SiftDown(data, j, kind) ==
    IF j > 1 /\ Less(kind, data[j], data[j - 1])
    THEN SiftDown(Swap(data, j, j - 1), j - 1, kind)
    ELSE data

RECURSIVE SortFrom(_, _, _)
SortFrom(data, i, kind) ==
    IF i > Len(data) THEN data
    ELSE SortFrom(SiftDown(data, i, kind), i + 1, kind)

SortSlice(data, kind) == SortFrom(data, 2, kind)

DeclsOfType(file, t) == SelectSeq(file.decls, LAMBDA d : d.type = t)

sortedImports(file) == SortSlice(DeclsOfType(file, "ImportNode"), "import")

sortedOptions(file) == SortSlice(DeclsOfType(file, "OptionNode"), "option")

\* The import at position i of the sorted slice is skipped.
skipsImport(importNodes, i) ==
    /\ i > 1
    /\ AsString(importNodes[i].name) = AsString(importNodes[i - 1].name)
    /\ ~importHasComment(importNodes[i])

RECURSIVE ImportsFrom(_, _, _)
ImportsFrom(g, importNodes, i) ==
    IF i > Len(importNodes) THEN g
    ELSE Then(IF i = 1 /\ g.previousNode # Nil
                 /\ ~leadingCommentsContainBlankLine(importNodes[i])
              THEN P(Log(g, "gap", Len(g.out)), <<>>)
              ELSE IF i = 1 THEN Log(g, "gap", Len(g.out)) ELSE g, LAMBDA g1 :
         Then(IF skipsImport(importNodes, i) THEN g1
              ELSE writeImport(Log(g1, "import", importNodes[i].id), importNodes[i],
                               i > 1), LAMBDA g2 :
         ImportsFrom(g2, importNodes, i + 1)))

\* columnFormatElements, which writeFileOptions calls, is not among the
\* sources: every option is written on a line of its own, in the order
\* given, with no column padding.
RECURSIVE FileOptionsFrom(_, _, _)
FileOptionsFrom(g, optionNodes, i) ==
    IF i > Len(optionNodes) THEN g
    ELSE Then(writeFileOption(Log(g, "option", optionNodes[i].id), optionNodes[i],
                              i > 1), LAMBDA g1 :
         FileOptionsFrom(g1, optionNodes, i + 1))

writeFileOptions(g, optionNodes) == FileOptionsFrom(g, optionNodes, 1)

\* The package declaration the header writes: the last one of the file.
PackageOf(file) ==
    IF DeclsOfType(file, "PackageNode") = <<>> THEN Nil
    ELSE DeclsOfType(file, "PackageNode")[Len(DeclsOfType(file, "PackageNode"))]

\* writeFileHeader with the file options written before the imports.
writeFileHeader_OptionsBeforeImports(g, file) ==
    IF file.syntax = Nil /\ file.edition = Nil /\ PackageOf(file) = Nil
       /\ sortedImports(file) = <<>> /\ sortedOptions(file) = <<>>
    THEN g
    ELSE Then(IF file.syntax # Nil THEN writeSyntax(Log(g, "syntax", 0), file.syntax)
              ELSE IF file.edition # Nil
                   THEN writeEdition(Log(g, "syntax", 0), file.edition)
              ELSE g, LAMBDA g1 :
         Then(IF PackageOf(file) # Nil
              THEN writePackage(Log(g1, "package", 0), PackageOf(file)) ELSE g1,
              LAMBDA g2 :
         Then(IF Len(sortedOptions(file)) > 0 /\ g2.previousNode # Nil
                 /\ ~leadingCommentsContainBlankLine(sortedOptions(file)[1])
              THEN P(g2, <<>>) ELSE g2, LAMBDA g3 :
         Then(writeFileOptions(g3, sortedOptions(file)), LAMBDA g4 :
         ImportsFrom(g4, sortedImports(file), 1)))))

writeFileHeader(g, file) ==
    IF file.syntax = Nil /\ file.edition = Nil /\ PackageOf(file) = Nil
       /\ sortedImports(file) = <<>> /\ sortedOptions(file) = <<>>
    THEN g
    ELSE Then(IF file.syntax # Nil THEN writeSyntax(Log(g, "syntax", 0), file.syntax)
              ELSE IF file.edition # Nil
                   THEN writeEdition(Log(g, "syntax", 0), file.edition)
              ELSE g, LAMBDA g1 :
         Then(IF PackageOf(file) # Nil
              THEN writePackage(Log(g1, "package", 0), PackageOf(file)) ELSE g1,
              LAMBDA g2 :
         Then(ImportsFrom(g2, sortedImports(file), 1), LAMBDA g3 :
         Then(IF Len(sortedOptions(file)) > 0 /\ g3.previousNode # Nil
                 /\ ~leadingCommentsContainBlankLine(sortedOptions(file)[1])
              THEN P(Log(g3, "gap", Len(g3.out)), <<>>)
              ELSE Log(g3, "gap", Len(g3.out)), LAMBDA g4 :
         writeFileOptions(g4, sortedOptions(file))))))

RECURSIVE FileTypesFrom(_, _, _)
FileTypesFrom(g, decls, i) ==
    IF i > Len(decls) THEN g
    ELSE IF decls[i].type \in {"PackageNode", "OptionNode", "ImportNode", "EmptyDeclNode"}
         THEN FileTypesFrom(g, decls, i + 1)
         ELSE Then(IF g.previousNode # Nil /\ ~leadingCommentsContainBlankLine(decls[i])
                   THEN P(Log(g, "gap", Len(g.out)), <<>>)
                   ELSE Log(g, "gap", Len(g.out)), LAMBDA g1 :
              Then(writeNode(Log(g1, "decl", decls[i].id), decls[i]), LAMBDA g2 :
              FileTypesFrom(g2, decls, i + 1)))

writeFileTypes(g, file) == FileTypesFrom(g, file.decls, 1)

\* The end of writeFile with the final newline written whatever the last
\* byte is.
writeFileEnd_AlwaysNewline(g, file) ==
    Then(IF file.eof # Nil THEN writeMultilineComments(g, file.eof.lead) ELSE g,
         LAMBDA g1 :
    IF g1.lastWritten # NUL THEN P(g1, <<>>) ELSE g1)

\* The end of writeFile: the comments before EOF, and the final newline.
writeFileEnd(g, file) ==
    Then(IF file.eof # Nil THEN writeMultilineComments(g, file.eof.lead) ELSE g,
         LAMBDA g1 :
    IF g1.lastWritten # NUL /\ g1.lastWritten # NL THEN P(g1, <<>>) ELSE g1)

writeFile(g, file) ==
    Then(writeFileHeader(g, file), LAMBDA g1 :
    Then(writeFileTypes(g1, file), LAMBDA g2 :
    writeFileEnd(g2, file)))

\* The recursive operator of the writers: one case for each way of writing a
\* node, and one for each step of writeFile.
write(g, node, how) ==
    IF g.panicked THEN g ELSE
    CASE how.way = "writeNode" -> writeNodeBody(g, node)
      [] how.way = "writeInline" -> writeInlineBody(g, node)
      [] how.way = "writeStartMaybeCompact" ->
            writeStartMaybeCompactBody(g, node, how.forceCompact)
      [] how.way = "writeLineEnd" -> writeLineEndBody(g, node)
      [] how.way = "writeBodyEnd" ->
            writeBodyEndBody(g, node, how.semicolon, how.leadingEndline)
      [] how.way = "writeCompositeValueForArrayLiteral" ->
            writeCompositeValueForArrayLiteralBody(g, node, how.lastElement)
      [] how.way = "writeFileHeader" -> writeFileHeader(g, node)
      [] how.way = "writeFileTypes" -> writeFileTypes(g, node)
      [] how.way = "writeFileEnd" -> writeFileEnd(g, node)

\* A step of Run on the file, entered as the writers of nodes are.
Run(g, file, step) == write(g, file, [way |-> step])

-----------------------------------------------------------------------------
(* The files Run is checked on.                                            *)

MaxImports == 2     \* most import declarations of a file
MaxOptions == 2     \* most file-level options of a file
MaxRPCs == 1        \* most rpcs of the service of a file

\* A terminal with the given leading whitespace and comments.
Tok(type, val, lws, lead, trail) ==
    [type |-> type, val |-> val, lws |-> lws, lead |-> lead, trail |-> trail,
     virtual |-> FALSE]

Plain(type, val, lws) == Tok(type, val, lws, <<>>, <<>>)

Comment(id, text, lws) == [id |-> id, text |-> text, lws |-> lws, virtual |-> FALSE]

LineC == <<"/", "/", SP, "c">>          \* // c
BlockC == <<"/", "*", "c", "*", "/">>   \* /*c*/

Quoted(name) == <<"\"">> \o name \o <<"\"">>

Semi(trail) == Tok("RuneNode", <<";">>, <<>>, <<>>, trail)

SyntaxDecl ==
    [type |-> "SyntaxNode",
     keyword |-> Plain("IdentNode", <<"s", "y", "n", "t", "a", "x">>, <<>>),
     equals |-> Plain("RuneNode", <<"=">>, <<SP>>),
     syntax |-> Plain("StringLiteralNode", <<"'", "p", "3", "'">>, <<SP>>),
     semicolon |-> Semi(<<>>)]

PackageDecl ==
    [type |-> "PackageNode",
     keyword |-> Plain("IdentNode", <<"p", "a", "c", "k", "a", "g", "e">>, <<NL>>),
     name |-> Plain("IdentNode", <<"p">>, <<SP>>),
     semicolon |-> Semi(<<>>)]

\* import [public|weak] "name"; as declaration number id of the file, with
\* a comment above it, after it, or none, and with or without an empty
\* line above it.
ImportShapes ==
    [name : {<<"a">>, <<"b">>}, mod : {"plain", "public", "weak"},
     cmt : {"none", "lead", "trail"}]

ImportDecl(id, shape) ==
    [type |-> "ImportNode", id |-> id,
     keyword |-> Tok("IdentNode", <<"i", "m", "p", "o", "r", "t">>, <<NL>>,
                     IF shape.cmt = "lead" THEN <<Comment(10 * id + 1, LineC, <<NL>>)>>
                     ELSE <<>>, <<>>),
     public |-> IF shape.mod = "public"
                THEN Plain("IdentNode", <<"p", "u", "b", "l", "i", "c">>, <<SP>>) ELSE Nil,
     weak |-> IF shape.mod = "weak"
              THEN Plain("IdentNode", <<"w", "e", "a", "k">>, <<SP>>) ELSE Nil,
     name |-> Plain("StringLiteralNode", Quoted(shape.name), <<SP>>),
     semicolon |-> Semi(IF shape.cmt = "trail" THEN <<Comment(10 * id + 2, LineC, <<SP>>)>>
                        ELSE <<>>)]

\* The names of file options: a, b, (a), (b), ( a with its ')' missing,
\* and a.(b).
Ref(open, name, close) ==
    [type |-> "FieldReferenceNode",
     open |-> IF open THEN Plain("RuneNode", <<"(">>, <<>>) ELSE Nil,
     name |-> Plain("IdentNode", name, <<>>),
     close |-> IF close THEN Plain("RuneNode", <<")">>, <<>>) ELSE Nil]

Dot == Plain("RuneNode", <<".">>, <<>>)

OptionNames ==
    { <<Ref(FALSE, <<"a">>, FALSE)>>, <<Ref(FALSE, <<"b">>, FALSE)>>,
      <<Ref(TRUE, <<"a">>, TRUE)>>, <<Ref(TRUE, <<"b">>, TRUE)>>,
      <<Ref(TRUE, <<"a">>, FALSE)>>,
      <<Ref(FALSE, <<"a">>, FALSE), Dot, Ref(TRUE, <<"b">>, TRUE)>> }

OptionShapes == [parts : OptionNames, cmt : {"none", "lead"}]

OptionDecl(id, shape) ==
    [type |-> "OptionNode", id |-> id,
     keyword |-> Tok("IdentNode", <<"o", "p", "t", "i", "o", "n">>, <<NL>>,
                     IF shape.cmt = "lead" THEN <<Comment(10 * id + 1, LineC, <<NL>>)>>
                     ELSE <<>>, <<>>),
     name |-> [type |-> "OptionNameNode", parts |-> shape.parts],
     equals |-> Plain("RuneNode", <<"=">>, <<SP>>),
     val |-> Plain("IdentNode", <<"t">>, <<SP>>),
     semicolon |-> Semi(<<>>)]

\* rpc M(A) returns (B) followed by ';', by '{}' or by '{ option a = t; }',
\* with one comment at one of its tokens, or none.
RPCShapes ==
    [body : {"semicolon", "empty", "option"},
     cmt : {"none", "keyword", "output", "end"}]

RPCType(lws, trail) ==
    [type |-> "RPCTypeNode",
     openParen |-> Plain("RuneNode", <<"(">>, lws),
     stream |-> Nil,
     messageType |-> Plain("IdentNode", <<"A">>, <<>>),
     closeParen |-> Tok("RuneNode", <<")">>, <<>>, <<>>, trail)]

RPCDecl(id, shape) ==
    LET c(n) == Comment(10 * id + n, BlockC, <<SP>>)
    IN  [type |-> "RPCNode", id |-> id,
         keyword |-> Tok("IdentNode", <<"r", "p", "c">>, <<NL, SP, SP>>,
                         IF shape.cmt = "keyword"
                         THEN <<Comment(10 * id + 1, LineC, <<NL, SP, SP>>)>> ELSE <<>>,
                         <<>>),
         name |-> Plain("IdentNode", <<"M">>, <<SP>>),
         input |-> RPCType(<<>>, <<>>),
         returns |-> Plain("IdentNode", <<"r", "e", "t", "u", "r", "n", "s">>, <<SP>>),
         output |-> RPCType(<<SP>>, IF shape.cmt = "output" THEN <<c(2)>> ELSE <<>>),
         openBrace |-> IF shape.body = "semicolon" THEN Nil
                       ELSE Plain("RuneNode", <<"{">>, <<SP>>),
         decls |-> IF shape.body = "option"
                   THEN <<OptionDecl(id, [parts |-> <<Ref(FALSE, <<"a">>, FALSE)>>,
                                          cmt |-> "none"])>>
                   ELSE <<>>,
         closeBrace |-> IF shape.body = "semicolon" THEN Nil
                        ELSE Tok("RuneNode", <<"}">>,
                                 IF shape.body = "option" THEN <<NL, SP, SP>> ELSE <<>>,
                                 <<>>,
                                 IF shape.cmt = "end" THEN <<c(3)>> ELSE <<>>),
         semicolon |-> IF shape.body = "semicolon"
                       THEN Semi(IF shape.cmt = "end" THEN <<c(3)>> ELSE <<>>)
                       ELSE Nil]

ServiceDecl(id, rpcs) ==
    [type |-> "ServiceNode", id |-> id,
     keyword |-> Plain("IdentNode", <<"s", "e", "r", "v", "i", "c", "e">>, <<NL>>),
     name |-> Plain("IdentNode", <<"S">>, <<SP>>),
     openBrace |-> Plain("RuneNode", <<"{">>, <<SP>>),
     decls |-> rpcs,
     closeBrace |-> Plain("RuneNode", <<"}">>, IF rpcs = <<>> THEN <<>> ELSE <<NL>>),
     semicolon |-> Nil]

\* The EOF token: no comments, a comment on the line above it, or a comment
\* after an empty line.
EOFs ==
    { Plain("RuneNode", <<>>, <<NL>>),
      Tok("RuneNode", <<>>, <<NL>>, <<Comment(1, LineC, <<NL>>)>>, <<>>),
      Tok("RuneNode", <<>>, <<NL>>, <<Comment(1, BlockC, <<NL, NL>>)>>, <<>>) }

File(syntax, decls, eof) ==
    [syntax |-> syntax, edition |-> Nil, decls |-> decls, eof |-> eof]

Heads == { <<>>, <<PackageDecl>> }

\* The declarations Decl(1, shapes[1]), ..., Decl(n, shapes[n]) of a family.
RECURSIVE DeclSeq(_, _, _, _)
DeclSeq(family, shapes, n, base) ==
    IF n = 0 THEN <<>>
    ELSE Append(DeclSeq(family, shapes, n - 1, base),
                CASE family = "import" -> ImportDecl(base + n, shapes[n])
                  [] family = "option" -> OptionDecl(base + n, shapes[n])
                  [] family = "rpc" -> RPCDecl(base + n, shapes[n]))

ImportFiles ==
    { File(syntax, DeclSeq("import", shapes, n, 0), Plain("RuneNode", <<>>, <<NL>>)) :
        syntax \in {Nil, SyntaxDecl}, n \in 0..MaxImports, shapes \in [1..MaxImports -> ImportShapes] }

OptionFiles ==
    { File(syntax, DeclSeq("option", shapes, n, 0), Plain("RuneNode", <<>>, <<NL>>)) :
        syntax \in {Nil, SyntaxDecl}, n \in 0..MaxOptions, shapes \in [1..MaxOptions -> OptionShapes] }

ServiceFiles ==
    { File(syntax, head \o <<ServiceDecl(1, DeclSeq("rpc", shapes, n, 1))>>, eof) :
        syntax \in {Nil, SyntaxDecl}, head \in Heads, eof \in EOFs,
        n \in 0..MaxRPCs, shapes \in [1..MaxRPCs -> RPCShapes] }

\* A file with every kind of declaration, out of header order.
MixedFile ==
    File(SyntaxDecl,
         << ServiceDecl(1, <<>>),
            OptionDecl(2, [parts |-> <<Ref(TRUE, <<"a">>, TRUE)>>, cmt |-> "none"]),
            ImportDecl(3, [name |-> <<"b">>, mod |-> "plain", cmt |-> "none"]),
            PackageDecl,
            ImportDecl(4, [name |-> <<"a">>, mod |-> "plain", cmt |-> "lead"]),
            OptionDecl(5, [parts |-> <<Ref(FALSE, <<"a">>, FALSE)>>, cmt |-> "none"]),
            [type |-> "EmptyDeclNode"] >>,
         Plain("RuneNode", <<>>, <<NL>>))

EmptyFile == File(Nil, <<>>, Nil)

\* What stands above the first token of a declaration: nothing but the line
\* break, an empty line, or comments with an empty line above them, among
\* them or below them.
Gaps ==
    { [lws |-> <<NL>>, lead |-> <<>>],
      [lws |-> <<NL, NL>>, lead |-> <<>>],
      [lws |-> <<NL>>, lead |-> <<Comment(91, LineC, <<NL>>)>>],
      [lws |-> <<NL>>, lead |-> <<Comment(91, LineC, <<NL, NL>>)>>],
      [lws |-> <<NL, NL>>, lead |-> <<Comment(91, LineC, <<NL>>)>>],
      [lws |-> <<NL>>, lead |-> <<Comment(91, LineC, <<NL>>),
                                  Comment(92, LineC, <<NL, NL>>)>>] }

WithGap(decl, gap) ==
    [decl EXCEPT !.keyword.lws = gap.lws, !.keyword.lead = gap.lead]

\* service S { with its '}' missing.
UnclosedService(id) == [ServiceDecl(id, <<>>) EXCEPT !.closeBrace = Nil]

\* syntax, then one import, one option or two services, with each kind of gap
\* above the declaration that follows the first line.
GapFiles ==
    { File(SyntaxDecl, <<WithGap(decl, gap)>>, Plain("RuneNode", <<>>, <<NL>>)) :
        decl \in { ImportDecl(1, [name |-> <<"a">>, mod |-> "plain", cmt |-> "none"]),
                   OptionDecl(1, [parts |-> <<Ref(FALSE, <<"a">>, FALSE)>>,
                                  cmt |-> "none"]),
                   ServiceDecl(1, <<>>) },
        gap \in Gaps }
    \cup
    { File(Nil, <<first, WithGap(ServiceDecl(2, <<>>), gap)>>,
           Plain("RuneNode", <<>>, <<NL>>)) :
        first \in {ServiceDecl(1, <<>>), UnclosedService(1)}, gap \in Gaps }

MaxElements == 2    \* most elements of a message literal, an array literal
                    \* or a compact options list

\* The comments of element id of a value: /*c*/ with a space before it.
ElementComment(id, n, wanted) ==
    IF wanted THEN <<Comment(10 * id + n, BlockC, <<SP>>)>> ELSE <<>>

\* A field of a message literal, k: v, with or without its ':' and its ','
\* and with a comment above its name, after its last token, or none.
FieldShapes == [sep : BOOLEAN, comma : BOOLEAN, cmt : {"none", "lead", "trail"}]

MessageField(id, shape, lws) ==
    [type |-> "MessageFieldNode", id |-> id,
     name |-> [Ref(FALSE, <<"k">>, FALSE) EXCEPT
                  !.name.lws = lws,
                  !.name.lead = ElementComment(id, 1, shape.cmt = "lead")],
     sep |-> IF shape.sep THEN Plain("RuneNode", <<":">>, <<>>) ELSE Nil,
     val |-> Tok("IdentNode", <<"v">>, <<SP>>, <<>>,
                 ElementComment(id, 2, shape.cmt = "trail" /\ ~shape.comma)),
     semicolon |-> IF shape.comma
                   THEN Tok("RuneNode", <<",">>, <<>>, <<>>,
                            ElementComment(id, 2, shape.cmt = "trail"))
                   ELSE Nil]

\* The lws of element n of a value: the first one follows the open rune at
\* once or stands on the next line, the others follow a space.
ElementLws(n, newline) == IF n > 1 THEN <<SP>> ELSE IF newline THEN <<NL>> ELSE <<>>

RECURSIVE FieldSeq(_, _, _)
FieldSeq(shapes, n, newline) ==
    IF n = 0 THEN <<>>
    ELSE Append(FieldSeq(shapes, n - 1, newline),
                MessageField(n, shapes[n], ElementLws(n, newline)))

MessageLiteral(elements, lws) ==
    [type |-> "MessageLiteralNode",
     open |-> Plain("RuneNode", <<"{">>, lws),
     elements |-> elements,
     close |-> Plain("RuneNode", <<"}">>, <<>>),
     semicolon |-> Nil]

MessageValues ==
    { MessageLiteral(FieldSeq(shapes, n, newline), <<SP>>) :
        n \in 1..MaxElements, shapes \in [1..MaxElements -> FieldShapes],
        newline \in BOOLEAN }

CompoundString(lws, lead, trail) ==
    [type |-> "CompoundStringLiteralNode",
     elements |-> << Tok("StringLiteralNode", Quoted(<<"x">>), lws, lead, <<>>),
                     Tok("StringLiteralNode", Quoted(<<"y">>), <<SP>>, <<>>, trail) >>]

\* An element of an array literal: v, {k: v}, [v] or "x" "y", with a comment
\* above its first token, after its last one, or none.
ArrayShapes ==
    [kind : {"ident", "message", "array", "string"}, cmt : {"none", "lead", "trail"}]

ArrayLiteral(elements, commas, lws) ==
    [type |-> "ArrayLiteralNode",
     openBracket |-> Plain("RuneNode", <<"[">>, lws),
     elements |-> elements,
     commas |-> commas,
     closeBracket |-> Plain("RuneNode", <<"]">>, <<>>),
     semicolon |-> Nil]

ArrayValue(id, shape, lws) ==
    CASE shape.kind = "ident" ->
            Tok("IdentNode", <<"v">>, lws, ElementComment(id, 1, shape.cmt = "lead"),
                ElementComment(id, 2, shape.cmt = "trail"))
      [] shape.kind = "message" ->
            [MessageLiteral(<<MessageField(id, [sep |-> TRUE, comma |-> FALSE,
                                                 cmt |-> "none"], <<>>)>>, lws)
             EXCEPT !.open.lead = ElementComment(id, 1, shape.cmt = "lead"),
                    !.close.trail = ElementComment(id, 2, shape.cmt = "trail")]
      [] shape.kind = "array" ->
            [ArrayLiteral(<<Plain("IdentNode", <<"v">>, <<>>)>>, <<>>, lws)
             EXCEPT !.openBracket.lead = ElementComment(id, 1, shape.cmt = "lead"),
                    !.closeBracket.trail = ElementComment(id, 2, shape.cmt = "trail")]
      [] shape.kind = "string" ->
            CompoundString(lws, ElementComment(id, 1, shape.cmt = "lead"),
                           ElementComment(id, 2, shape.cmt = "trail"))

RECURSIVE ArraySeq(_, _, _)
ArraySeq(shapes, n, newline) ==
    IF n = 0 THEN <<>>
    ELSE Append(ArraySeq(shapes, n - 1, newline),
                ArrayValue(n, shapes[n], ElementLws(n, newline)))

\* The commas of an array literal of n elements: one after each element but
\* the last.
Commas(n) == [i \in 1..(n - 1) |-> Plain("RuneNode", <<",">>, <<>>)]

ArrayValues ==
    { ArrayLiteral(ArraySeq(shapes, n, newline), Commas(n), <<SP>>) :
        n \in 1..MaxElements, shapes \in [1..MaxElements -> ArrayShapes],
        newline \in BOOLEAN }

\* option a = value; as declaration number id of a body.
ValueOption(id, value) ==
    [OptionDecl(id, [parts |-> <<Ref(FALSE, <<"a">>, FALSE)>>, cmt |-> "none"])
     EXCEPT !.val = value]

\* service S { option a = value; } for every message literal and every
\* array literal.
LiteralFiles ==
    { File(Nil, <<ServiceDecl(1, <<ValueOption(2, value)>>)>>,
           Plain("RuneNode", <<>>, <<NL>>)) :
        value \in MessageValues \cup ArrayValues }

\* service S { } with a node in its body that writeNode has no case for.
UnexpectedFile ==
    File(Nil, <<ServiceDecl(1, <<[type |-> "NoSourceNode"]>>)>>,
         Plain("RuneNode", <<>>, <<NL>>))

Files ==
    ImportFiles \cup OptionFiles \cup ServiceFiles \cup GapFiles \cup LiteralFiles
    \cup {MixedFile, EmptyFile, UnexpectedFile}

-----------------------------------------------------------------------------
(* Run: NewFormatter(writer, fileNode).Run(), step by step through         *)
(* writeFile.  pc is "done" when Run has returned and "panic" when a       *)
(* writer has panicked: Run has no recover, and the panic leaves it.       *)

Init ==
    /\ fileNode \in Files
    /\ f = NewFormatter
    /\ pc = "writeFileHeader"
    /\ op = "NewFormatter"
    /\ other = Nil

RunFileHeader ==
    /\ pc = "writeFileHeader"
    /\ f' = Run(f, fileNode, "writeFileHeader")
    /\ pc' = IF f'.panicked THEN "panic" ELSE "writeFileTypes"
    /\ op' = "writeFileHeader"
    /\ UNCHANGED <<fileNode, other>>

RunFileTypes ==
    /\ pc = "writeFileTypes"
    /\ f' = Run(f, fileNode, "writeFileTypes")
    /\ pc' = IF f'.panicked THEN "panic" ELSE "writeFileEnd"
    /\ op' = "writeFileTypes"
    /\ UNCHANGED <<fileNode, other>>

RunFileEnd ==
    /\ pc = "writeFileEnd"
    /\ f' = Run(f, fileNode, "writeFileEnd")
    /\ pc' = IF f'.panicked THEN "panic" ELSE "done"
    /\ op' = "Run"
    /\ UNCHANGED <<fileNode, other>>

Next == RunFileHeader \/ RunFileTypes \/ RunFileEnd

Spec == Init /\ [][Next]_vars

-----------------------------------------------------------------------------
(* Token-level callers: any sequence of calls of the exported methods.     *)

NoFile == [syntax |-> Nil, decls |-> <<>>, eof |-> Nil]

SpaceTexts == { <<>>, <<"a">>, <<";">>, <<NL>>, <<")">>, <<"(">>, <<"a", SP, "b">> }

InitSpace ==
    /\ f = NewFormatter
    /\ fileNode = NoFile
    /\ pc = "api"
    /\ op = "NewFormatter"
    /\ other = Nil

CallSpace ==
    /\ pc = "api"
    /\ f' = Space(f)
    /\ op' = "Space"
    /\ UNCHANGED <<fileNode, pc, other>>

CallWriteString ==
    /\ pc = "api"
    /\ \E elem \in SpaceTexts :
          /\ Len(f.out) + Len(elem) + 1 <= MaxOut
          /\ f' = WriteString(f, elem)
    /\ op' = "WriteString"
    /\ UNCHANGED <<fileNode, pc, other>>

\* writeInline sets f.inline for the writes it makes and clears it on return.
EnterInline ==
    /\ pc = "api"
    /\ ~f.inline
    /\ f' = [f EXCEPT !.inline = TRUE]
    /\ op' = "writeInline"
    /\ UNCHANGED <<fileNode, pc, other>>

LeaveInline ==
    /\ pc = "api"
    /\ f.inline
    /\ f' = [f EXCEPT !.inline = FALSE]
    /\ op' = "return"
    /\ UNCHANGED <<fileNode, pc, other>>

NextSpace == CallSpace \/ CallWriteString \/ EnterInline \/ LeaveInline

SpecSpace == InitSpace /\ [][NextSpace]_vars

IndentTexts == { <<>>, <<"a">>, <<SP>> }
IndentRunes == { "{", "}", "=" }

CallIn ==
    /\ pc = "api"
    /\ f.indent < MaxIndent
    /\ f' = In(f)
    /\ op' = "In"
    /\ UNCHANGED <<fileNode, pc, other>>

CallOut ==
    /\ pc = "api"
    /\ f.indent > 0 \/ Len(f.err) < MaxErrs
    /\ f' = Out(f)
    /\ op' = "Out"
    /\ UNCHANGED <<fileNode, pc, other>>

CallP ==
    /\ pc = "api"
    /\ f.indent < MaxIndent
    /\ f.indent > 0 \/ Len(f.err) < MaxErrs
    /\ \E elem \in IndentTexts :
          /\ Len(f.out) + 2 * f.indent + Len(elem) + 1 <= MaxOut + 2 * MaxIndent
          /\ Len(f.out) < MaxOut
          /\ f' = P(f, elem)
    /\ op' = "P"
    /\ UNCHANGED <<fileNode, pc, other>>

CallWriteRune ==
    /\ pc = "api"
    /\ Len(f.out) < MaxOut
    /\ \E r \in IndentRunes :
          /\ f.pendingIndent + 1 <= MaxIndent
          /\ f.pendingIndent - 1 >= -MaxIndent
          /\ f' = writeRuneChar(f, r)
    /\ op' = "writeRune"
    /\ UNCHANGED <<fileNode, pc, other>>

NextIndent == CallIn \/ CallOut \/ CallP \/ CallWriteRune

SpecIndent == InitSpace /\ [][NextIndent]_vars

-----------------------------------------------------------------------------
(* A writer that formats through saveState and mergeState, on a sink that  *)
(* may fail.  The reader mergeState copies from is the buffer the other    *)
(* formatter has written to.                                               *)

MergeTexts == { <<"a">>, <<";">> }

\* The sink of the caller starts to fail, or works again.
SinkTurns ==
    /\ pc = "api"
    /\ f' = [f EXCEPT !.sinkFails = ~@]
    /\ op' = "sink"
    /\ UNCHANGED <<fileNode, pc, other>>

MergeWriteString ==
    /\ pc = "api"
    /\ Len(f.out) < MaxOut
    /\ Len(f.err) < MaxErrs
    /\ \E elem \in MergeTexts : f' = WriteString(f, elem)
    /\ op' = "WriteString"
    /\ UNCHANGED <<fileNode, pc, other>>

MergeOut ==
    /\ pc = "api"
    /\ Len(f.err) < MaxErrs
    /\ f' = Out(f)
    /\ op' = "Out"
    /\ UNCHANGED <<fileNode, pc, other>>

CallSaveState ==
    /\ pc = "api"
    /\ other = Nil
    /\ other' = saveState(f)
    /\ op' = "saveState"
    /\ UNCHANGED <<f, fileNode, pc>>

SpeculativeWriteString ==
    /\ pc = "api"
    /\ other # Nil
    /\ Len(f.out) + Len(other.out) < MaxOut
    /\ \E elem \in MergeTexts : other' = WriteString(other, elem)
    /\ op' = "other.WriteString"
    /\ UNCHANGED <<f, fileNode, pc>>

SpeculativeOut ==
    /\ pc = "api"
    /\ other # Nil
    /\ Len(f.err) + Len(other.err) < MaxErrs
    /\ other' = Out(other)
    /\ op' = "other.Out"
    /\ UNCHANGED <<f, fileNode, pc>>

CallMergeState ==
    /\ pc = "api"
    /\ other # Nil
    /\ f' = mergeState(f, other, other.out)
    /\ other' = Nil
    /\ op' = "mergeState"
    /\ UNCHANGED <<fileNode, pc>>

\* Run returns f.err.
MergeReturn ==
    /\ pc = "api"
    /\ other = Nil
    /\ pc' = "done"
    /\ op' = "Run"
    /\ UNCHANGED <<f, fileNode, other>>

NextMerge ==
    \/ SinkTurns \/ MergeWriteString \/ MergeOut \/ CallSaveState
    \/ SpeculativeWriteString \/ SpeculativeOut \/ CallMergeState \/ MergeReturn

SpecMerge == InitSpace /\ [][NextMerge]_vars

-----------------------------------------------------------------------------
(* The declarations of a body: a field with compact options, or a field of *)
(* a message literal, written after the '{' of the body that holds it and  *)
(* before its '}'.                                                         *)

\* An option of a compact options list, a = t or a = "x" "y", with or
\* without its ',' and with a comment above its name, after its last
\* token, or none.
CompactShapes ==
    [comma : BOOLEAN, cmt : {"none", "lead", "trail"}, val : {"ident", "string"}]

CompactOption(id, shape, lws) ==
    [type |-> "OptionNode", id |-> id,
     keyword |-> Nil,
     name |-> [type |-> "OptionNameNode",
               parts |-> << [Ref(FALSE, <<"a">>, FALSE) EXCEPT
                                !.name.lws = lws,
                                !.name.lead =
                                    ElementComment(id, 1, shape.cmt = "lead")] >>],
     equals |-> Plain("RuneNode", <<"=">>, <<SP>>),
     val |-> IF shape.val = "string"
             THEN CompoundString(<<SP>>, <<>>,
                      ElementComment(id, 2, shape.cmt = "trail" /\ ~shape.comma))
             ELSE Tok("IdentNode", <<"t">>, <<SP>>, <<>>,
                      ElementComment(id, 2, shape.cmt = "trail" /\ ~shape.comma)),
     semicolon |-> IF shape.comma
                   THEN Tok("RuneNode", <<",">>, <<>>, <<>>,
                            ElementComment(id, 2, shape.cmt = "trail"))
                   ELSE Nil]

RECURSIVE CompactSeq(_, _, _)
CompactSeq(shapes, n, newline) ==
    IF n = 0 THEN <<>>
    ELSE Append(CompactSeq(shapes, n - 1, newline),
                CompactOption(n, shapes[n], ElementLws(n, newline)))

\* T n = 1 [options];
FieldDecl(options) ==
    [type |-> "FieldNode", id |-> 1,
     label |-> Nil,
     fieldType |-> Plain("IdentNode", <<"T">>, <<NL>>),
     name |-> Plain("IdentNode", <<"n">>, <<SP>>),
     equals |-> Plain("RuneNode", <<"=">>, <<SP>>),
     tag |-> Plain("UintLiteralNode", <<"1">>, <<SP>>),
     options |-> [type |-> "CompactOptionsNode",
                  openBracket |-> Plain("RuneNode", <<"[">>, <<SP>>),
                  options |-> options,
                  closeBracket |-> Plain("RuneNode", <<"]">>, <<>>),
                  semicolon |-> Nil],
     semicolon |-> Semi(<<>>)]

FieldDecls ==
    { FieldDecl(CompactSeq(shapes, n, newline)) :
        n \in 1..MaxElements, shapes \in [1..MaxElements -> CompactShapes],
        newline \in BOOLEAN }

MessageFieldDecls == { MessageField(1, shape, <<NL>>) : shape \in FieldShapes }

ValueFiles ==
    { File(Nil, <<decl>>, Nil) : decl \in FieldDecls \cup MessageFieldDecls }

InitValue ==
    /\ fileNode \in ValueFiles
    /\ f = writeOpenBracePrefix(NewFormatter, Plain("RuneNode", <<"{">>, <<>>))
    /\ pc = "element"
    /\ op = "writeOpenBracePrefix"
    /\ other = Nil

CallWriteField ==
    /\ pc = "element"
    /\ fileNode.decls[1].type = "FieldNode"
    /\ f' = writeNode(f, fileNode.decls[1])
    /\ pc' = "close"
    /\ op' = "writeField"
    /\ UNCHANGED <<fileNode, other>>

CallWriteMessageField ==
    /\ pc = "element"
    /\ fileNode.decls[1].type = "MessageFieldNode"
    /\ f' = writeNode(f, fileNode.decls[1])
    /\ pc' = "close"
    /\ op' = "writeMessageField"
    /\ UNCHANGED <<fileNode, other>>

CallWriteBodyEnd ==
    /\ pc = "close"
    /\ f' = writeBodyEnd(f, Plain("RuneNode", <<"}">>, <<NL>>), Nil, FALSE)
    /\ pc' = "done"
    /\ op' = "writeBodyEnd"
    /\ UNCHANGED <<fileNode, other>>

NextValue == CallWriteField \/ CallWriteMessageField \/ CallWriteBodyEnd

SpecValue == InitValue /\ [][NextValue]_vars


-----------------------------------------------------------------------------
(* A single terminal handed to its writer: a string literal to             *)
(* writeStringLiteral.                                                     *)

MaxRaw == 5     \* most characters of the raw text of a string literal

\* Character i of s stands after a backslash that is not escaped itself.
RECURSIVE Escaped(_, _)
Escaped(s, i) == i > 1 /\ s[i - 1] = "\\" /\ ~Escaped(s, i - 1)

\* s is one string literal: it opens with a quote, closes with the same
\* quote, and that quote stands nowhere between the two unless escaped.
IsLiteral(s) ==
    /\ Len(s) > 1
    /\ s[1] \in {"'", "\""}
    /\ s[Len(s)] = s[1]
    /\ ~Escaped(s, Len(s))
    /\ \A i \in 2..(Len(s) - 1) : s[i] = s[1] => Escaped(s, i)

\* The raw texts of the string literals the lexer can hand over.
RawTexts ==
    { s \in UNION { [1..n -> {"'", "\"", "\\", "a"}] : n \in 2..MaxRaw } : IsLiteral(s) }

StringFiles ==
    { File(Nil, <<Plain("StringLiteralNode", raw, <<>>)>>, Nil) : raw \in RawTexts }

InitString ==
    /\ fileNode \in StringFiles
    /\ f = NewFormatter
    /\ pc = "node"
    /\ op = "NewFormatter"
    /\ other = Nil

CallWriteStringLiteral ==
    /\ pc = "node"
    /\ f' = writeNode(f, fileNode.decls[1])
    /\ pc' = "done"
    /\ op' = "writeStringLiteral"
    /\ UNCHANGED <<fileNode, other>>

NextString == CallWriteStringLiteral

SpecString == InitString /\ [][NextString]_vars

-----------------------------------------------------------------------------
(* A list of comments handed to one of the comment strategies, after a     *)
(* token the caller has written.  The list is kept in `other`.             *)

MaxComments == 2

CommentTexts ==
    { <<"/", "/", "c">>,                               \* //c
      <<"/", "/", SP, "c", SP>>,                       \* // c_
      <<"/", "/">>,                                    \* //
      <<"/", "/", "*", "/", "c">>,                     \* //*/c
      <<"/", "*", "c", "*", "/">>,                     \* /*c*/
      <<"/", "*", SP, "c", NL, SP, "d", SP, "*", "/">>,  \* /* c\n d */
      <<"/", "*", NL, NL, "*", "/">> }                 \* /*\n\n*/

CommentShapes ==
    { [id |-> 0, text |-> text, lws |-> lws, virtual |-> v] :
        text \in CommentTexts, lws \in {<<>>, <<SP>>, <<NL>>}, v \in {FALSE} }
    \cup { [id |-> 0, text |-> <<>>, lws |-> <<>>, virtual |-> TRUE] }

IsLineComment(c) == ~c.virtual /\ HasPrefix(c.text, <<"/", "/">>)

\* A line comment runs to the end of its line: the comment that follows it
\* in the source has a newline in its leading whitespace.
LineCommentsEndLines(c) ==
    \A i \in 1..Len(c) : \A j \in 1..(i - 1) :
        (/\ IsLineComment(c[j])
         /\ ~c[i].virtual
         /\ \A k \in (j + 1)..(i - 1) : c[k].virtual) => Contains(c[i].lws, NL)

CommentLists ==
    UNION { { [i \in 1..n |-> [c[i] EXCEPT !.id = i]] :
                c \in { d \in [1..n -> CommentShapes] : LineCommentsEndLines(d) } }
            : n \in 0..MaxComments }

CommentStarts ==
    { NewFormatter, WriteString(NewFormatter, <<";">>), WriteString(NewFormatter, <<"a">>) }

InitComment ==
    /\ other \in CommentLists
    /\ f \in CommentStarts
    /\ fileNode = NoFile
    /\ pc = "node"
    /\ op = "NewFormatter"

CallWriteInlineComments ==
    /\ pc = "node"
    /\ f' = writeInlineComments(f, other)
    /\ pc' = "done"
    /\ op' = "writeInlineComments"
    /\ UNCHANGED <<fileNode, other>>

CallWriteMultilineComments ==
    /\ pc = "node"
    /\ f' = writeMultilineComments(f, other)
    /\ pc' = "done"
    /\ op' = "writeMultilineComments"
    /\ UNCHANGED <<fileNode, other>>

CallWriteTrailingEndComments ==
    /\ pc = "node"
    /\ f' = writeTrailingEndComments(f, other)
    /\ pc' = "done"
    /\ op' = "writeTrailingEndComments"
    /\ UNCHANGED <<fileNode, other>>

NextComment ==
    \/ CallWriteInlineComments
    \/ CallWriteMultilineComments
    \/ CallWriteTrailingEndComments

SpecComment == InitComment /\ [][NextComment]_vars

-----------------------------------------------------------------------------
(* The first token of a declaration handed to writeStartMaybeCompact at    *)
(* the start of a line: at the start of the file, after a line that ';'    *)
(* has ended, after an opening '{', '[' or '<'.  `other` keeps the call:   *)
(* the node, forceCompact and the formatter before the call.               *)

MaxNewlines == 3

StartWhitespace ==
    { Repeat(<<NL>>, n) : n \in 0..MaxNewlines } \cup { <<SP>>, <<NL, SP, NL, SP>> }

StartNodes ==
    { Tok("IdentNode", <<"x">>, lws, lead, <<>>) :
        lws \in StartWhitespace, lead \in { <<>>, <<Comment(1, LineC, <<>>)>> } }

StartFormatters ==
    { NewFormatter,
      writeLineEnd(WriteString(NewFormatter, <<"a">>), Plain("RuneNode", <<";">>, <<>>)) }
    \cup { writeOpenBracePrefix(NewFormatter, Plain("RuneNode", <<r>>, <<>>)) :
             r \in {"{", "[", "<"} }

InitStart ==
    /\ f \in StartFormatters
    /\ \E node \in StartNodes, forceCompact \in BOOLEAN :
          other = [node |-> node, forceCompact |-> forceCompact, before |-> f]
    /\ fileNode = NoFile
    /\ pc = "node"
    /\ op = "NewFormatter"

CallWriteStart ==
    /\ pc = "node"
    /\ f' = writeStartMaybeCompact(f, other.node, other.forceCompact)
    /\ pc' = "done"
    /\ op' = "writeStartMaybeCompact"
    /\ UNCHANGED <<fileNode, other>>

NextStart == CallWriteStart

SpecStart == InitStart /\ [][NextStart]_vars

-----------------------------------------------------------------------------
(* The sub-groups of a column-aligned group.  A segmentedField is kept as  *)
(* [id, typeName, fieldName] with the lengths of the two names in place of *)
(* the names: splitSegmentedFields reads nothing else of a row.            *)

MaxRows == 3

smallSize == 40

RECURSIVE Power(_, _)
Power(b, n) == IF n = 0 THEN 1 ELSE b * Power(b, n - 1)

\* yield(fields[lower:i])
Yield_FromSecondRow(groups, fields, lower, i) ==
    Append(groups, SubSeq(fields, lower + 2, i))

Yield(groups, fields, lower, i) == Append(groups, SubSeq(fields, lower + 1, i))

\* ShouldSplit without the test against smallSize
ShouldSplit_NoSmallSize(size, prevSize, count, product) ==
    /\ size > 0 /\ prevSize > 0 /\ count > 0
    /\ \/ Power(5 * size, count) <= Power(2, count) * product
       \/ Power(5, count) * product <= Power(2 * size, count)

\* The test that splits the group before a row.  lnsum is the sum of the
\* logarithms of the sizes counted, so mean = exp(lnsum / count) is the
\* count-th root of their product, and with r = 2.5 = 5/2
\*   r * ratio <= 1  iff  (5 * size)^count <= 2^count * product
\*   r <= ratio      iff  5^count * product <= (2 * size)^count.
\* No size of the model meets either bound with equality, where the
\* rounding of math.Exp and math.Log would decide.
ShouldSplit(size, prevSize, count, product) ==
    /\ size > 0 /\ prevSize > 0 /\ count > 0
    /\ (prevSize > smallSize \/ size > smallSize)
    /\ \/ Power(5 * size, count) <= Power(2, count) * product
       \/ Power(5, count) * product <= Power(2 * size, count)

\* The loop from row i (the Go index i - 1) on; v holds the variables of
\* the function, product standing for exp(lnsum).
RECURSIVE splitFrom(_, _, _)
splitFrom(fields, i, v) ==
    IF i > Len(fields) THEN Yield(v.groups, fields, v.lower, Len(fields))
    ELSE LET size == fields[i].typeName + fields[i].fieldName
             split == ShouldSplit(size, v.size, v.count, v.product)
             v1 == IF split
                   THEN [v EXCEPT !.groups = Yield(v.groups, fields, v.lower, i - 1),
                                  !.lower = i - 1, !.count = 0, !.product = 1]
                   ELSE v
             v2 == IF size > 0
                   THEN [v1 EXCEPT !.count = @ + 1, !.product = @ * size]
                   ELSE v1
         IN  splitFrom(fields, i + 1, [v2 EXCEPT !.size = size])

splitSegmentedFields(fields) ==
    splitFrom(fields, 1, [count |-> 0, lower |-> 0, size |-> 0, product |-> 1,
                          groups |-> <<>>])

TypeNameLengths == {0, 10, 40, 41}
FieldNameLengths == {0, 70}

SegmentedFields ==
    UNION { { [i \in 1..n |-> [id |-> i, typeName |-> t[i], fieldName |-> m[i]]] :
                t \in [1..n -> TypeNameLengths], m \in [1..n -> FieldNameLengths] }
            : n \in 0..MaxRows }

InitSplit ==
    /\ \E fields \in SegmentedFields : other = [fields |-> fields, groups |-> <<>>]
    /\ f = NewFormatter
    /\ fileNode = NoFile
    /\ pc = "node"
    /\ op = "NewFormatter"

CallSplitSegmentedFields ==
    /\ pc = "node"
    /\ other' = [other EXCEPT !.groups = splitSegmentedFields(other.fields)]
    /\ pc' = "done"
    /\ op' = "splitSegmentedFields"
    /\ UNCHANGED <<f, fileNode>>

NextSplit == CallSplitSegmentedFields

SpecSplit == InitSplit /\ [][NextSplit]_vars

-----------------------------------------------------------------------------
(* Lines: runes and spaces written, then P.  `other` keeps the text of the *)
(* last call of P.                                                         *)

MaxLine == 4
MaxPending == 2

LineTexts == { <<>>, <<"a">>, <<SP>> }

LineWriteRune ==
    /\ pc = "api"
    /\ Len(f.out) < MaxLine
    /\ \E r \in { "{", "}" } :
          /\ f.pendingIndent + 1 <= MaxPending
          /\ f.pendingIndent - 1 >= -MaxPending
          /\ f' = writeRuneChar(f, r)
    /\ op' = "writeRune"
    /\ UNCHANGED <<fileNode, pc, other>>

LineSpace ==
    /\ pc = "api"
    /\ ~f.pendingSpace
    /\ f' = Space(f)
    /\ op' = "Space"
    /\ UNCHANGED <<fileNode, pc, other>>

LineP ==
    /\ pc = "api"
    /\ Len(f.out) < MaxLine
    /\ f.indent < MaxPending
    /\ f.indent > 0 \/ Len(f.err) < MaxErrs
    /\ \E elem \in LineTexts :
          /\ f' = P(f, elem)
          /\ other' = elem
    /\ op' = "P"
    /\ UNCHANGED <<fileNode, pc>>

NextLine == LineWriteRune \/ LineSpace \/ LineP

SpecLine == InitSpace /\ [][NextLine]_vars

-----------------------------------------------------------------------------
(* The less function of the import sort applied to three imports, in every *)
(* pairing.  `other` keeps the imports and, after the call, the answers.   *)

InitLess ==
    /\ \E a \in ImportShapes, b \in ImportShapes, c \in ImportShapes :
          other = [imports |-> <<ImportDecl(1, a), ImportDecl(2, b), ImportDecl(3, c)>>,
                   less |-> <<>>]
    /\ f = NewFormatter
    /\ fileNode = NoFile
    /\ pc = "node"
    /\ op = "NewFormatter"

CallImportLess ==
    /\ pc = "node"
    /\ other' = [other EXCEPT !.less =
                    [i \in 1..Len(other.imports) |->
                        [j \in 1..Len(other.imports) |->
                            importLess(other.imports[i], other.imports[j])]]]
    /\ pc' = "done"
    /\ op' = "importLess"
    /\ UNCHANGED <<f, fileNode>>

NextLess == CallImportLess

SpecLess == InitLess /\ [][NextLess]_vars

-----------------------------------------------------------------------------
(* A block comment over several lines handed to writeComment: the lines    *)
(* after the first are indented by blanks and tabs and start with a        *)
(* letter, so they share no prefix.  `other` keeps the comment.            *)

MaxIndentChars == 2

Indentations == UNION { [1..n -> {SP, TAB}] : n \in 0..MaxIndentChars }

BlockComments ==
    { <<"/", "*">> \o <<NL>> \o a \o <<"x", NL, "*", "/">> : a \in Indentations }
    \cup { <<"/", "*">> \o <<NL>> \o a \o <<"x", NL>> \o b \o <<"y", NL, "*", "/">> :
             a \in Indentations, b \in Indentations }

InitBlock ==
    /\ other \in BlockComments
    /\ f = NewFormatter
    /\ fileNode = NoFile
    /\ pc = "node"
    /\ op = "NewFormatter"

CallWriteComment ==
    /\ pc = "node"
    /\ f' = writeComment(f, other)
    /\ pc' = "done"
    /\ op' = "writeComment"
    /\ UNCHANGED <<fileNode, other>>

NextBlock == CallWriteComment

SpecBlock == InitBlock /\ [][NextBlock]_vars

-----------------------------------------------------------------------------
(* Claims about the token writer.                                          *)

\* C3: a space written for the pendingSpace flag is never directly followed
\* in the output by a newline, ';' or ',', nor by ')', ']', '}' or '>' when
\* that next byte was written while f.inline was set.
C3_NoSpaceBeforePunctuation ==
    \A i \in 1..(Len(f.out) - 1) :
        f.mark[i] = "s" =>
            /\ f.out[i + 1] \notin {NL, ";", ","}
            /\ f.mark[i + 1] = "i" => f.out[i + 1] \notin {")", "]", "}", ">"}

\* The first byte of the line that holds position i.
RECURSIVE LineStart(_, _)
LineStart(out, i) ==
    IF i <= 1 THEN 1
    ELSE IF out[i - 1] = NL THEN i ELSE LineStart(out, i - 1)

InIndentRun(out, i) == \A k \in LineStart(out, i)..i : out[k] = SP

\* C4: with texts that neither begin nor end with a space, the output never
\* holds two consecutive spaces outside a run of indentation at the start
\* of a line.
C4_NoDoubledSpace ==
    \A i \in 1..(Len(f.out) - 1) :
        (f.out[i] = SP /\ f.out[i + 1] = SP) => InIndentRun(f.out, i + 1)

\* C5: indent is never negative; Out() at indent 0 leaves indent at 0 and
\* joins one error into err, every other Out() takes exactly 1 off indent
\* and leaves err alone; the same holds for the Out() that P makes when
\* pendingIndent is negative.
OutContract(g, h) ==
    IF g.indent = 0
    THEN h.indent = 0 /\ Len(h.err) = Len(g.err) + 1
    ELSE h.indent = g.indent - 1 /\ h.err = g.err

C5_IndentNeverNegative ==
    /\ [](f.indent >= 0)
    /\ [][ /\ op' = "Out" => OutContract(f, f')
           /\ (op' = "P" /\ f.pendingIndent < 0) => OutContract(f, f')
         ]_vars

\* Out() has been called at indent 0, and P has unindented at a line end.
C5_Witness_OutAtZero ==
    /\ op = "Out"
    /\ f.indent = 0
    /\ Len(f.err) > 0

-----------------------------------------------------------------------------
(* Claims about Run.                                                       *)

\* C1: after Run the bytes the sink has received are empty or end with
\* exactly one newline: the last byte is a newline and the byte before it,
\* if there is one, is not.
C1_OneTrailingNewline ==
    pc = "done" =>
        \/ f.out = <<>>
        \/ /\ f.out[Len(f.out)] = NL
           /\ Len(f.out) > 1 => f.out[Len(f.out) - 1] # NL

\* Run has ended on a file whose EOF token carries a comment: the comment's
\* own newline is the last byte, and writeFile adds none.
C1_Witness_EndsAfterEOFComment ==
    /\ pc = "done"
    /\ fileNode.eof # Nil
    /\ Len(fileNode.eof.lead) > 0
    /\ Len(f.out) > 1

\* The terminals of a node, in source order.
RECURSIVE Tokens(_)
RECURSIVE TokensOfAll(_, _)
TokensOfAll(nodes, i) ==
    IF i > Len(nodes) THEN <<>>
    ELSE Tokens(nodes[i]) \o TokensOfAll(nodes, i + 1)

Tokens(node) ==
    IF node = Nil THEN <<>>
    ELSE IF IsTerminal(node) THEN <<node>>
    ELSE CASE node.type = "SyntaxNode" ->
                <<node.keyword, node.equals, node.syntax, node.semicolon>>
           [] node.type = "PackageNode" ->
                <<node.keyword, node.name, node.semicolon>>
           [] node.type = "ImportNode" ->
                TokensOfAll(<<node.keyword, node.public, node.weak, node.name,
                              node.semicolon>>, 1)
           [] node.type = "OptionNode" ->
                TokensOfAll(<<node.keyword, node.name, node.equals, node.val,
                              node.semicolon>>, 1)
           [] node.type = "OptionNameNode" -> TokensOfAll(node.parts, 1)
           [] node.type = "FieldReferenceNode" ->
                TokensOfAll(<<node.open, node.name, node.close>>, 1)
           [] node.type = "RPCTypeNode" ->
                TokensOfAll(<<node.openParen, node.stream, node.messageType,
                              node.closeParen>>, 1)
           [] node.type = "RPCNode" ->
                TokensOfAll(<<node.keyword, node.name, node.input, node.returns,
                              node.output, node.openBrace>>, 1)
                \o TokensOfAll(node.decls, 1)
                \o TokensOfAll(<<node.closeBrace, node.semicolon>>, 1)
           [] node.type = "ServiceNode" ->
                TokensOfAll(<<node.keyword, node.name, node.openBrace>>, 1)
                \o TokensOfAll(node.decls, 1)
                \o TokensOfAll(<<node.closeBrace, node.semicolon>>, 1)
           [] node.type = "CompoundStringLiteralNode" -> node.elements
           [] node.type = "MessageFieldNode" ->
                TokensOfAll(<<node.name, node.sep, node.val, node.semicolon>>, 1)
           [] node.type = "MessageLiteralNode" ->
                <<node.open>> \o TokensOfAll(node.elements, 1) \o <<node.close>>
           [] node.type = "ArrayLiteralNode" ->
                <<node.openBracket>> \o TokensOfAll(node.elements, 1)
                \o node.commas \o <<node.closeBracket>>
           [] node.type = "CompactOptionsNode" ->
                <<node.openBracket>> \o TokensOfAll(node.options, 1)
                \o <<node.closeBracket>>
           [] node.type = "FieldNode" ->
                TokensOfAll(<<node.label, node.fieldType, node.name, node.equals,
                              node.tag, node.options, node.semicolon>>, 1)
           [] OTHER -> <<>>

FileTokens(file) ==
    Tokens(file.syntax) \o TokensOfAll(file.decls, 1) \o Tokens(file.eof)

\* The comments attached to the tokens of a file.
FileComments(file) ==
    LET toks == FileTokens(file)
    IN  UNION { { tok.lead[k] : k \in 1..Len(tok.lead) }
                \cup { tok.trail[k] : k \in 1..Len(tok.trail) }
              : tok \in { toks[i] : i \in 1..Len(toks) } }

\* How often the comment was handed to a comment writer.
TimesWritten(g, comment) ==
    Cardinality({ k \in 1..Len(g.emitted) :
                    g.emitted[k] = [ev |-> "comment", id |-> comment.id] })

\* C2: after Run every comment attached to a token of the file has been
\* written exactly once, and no virtual comment has been written.
C2_EveryCommentOnce ==
    pc = "done" =>
        \A comment \in FileComments(fileNode) :
            TimesWritten(f, comment) = (IF comment.virtual THEN 0 ELSE 1)

-----------------------------------------------------------------------------
(* Claims about the imports of the file header.                            *)

\* The ids the header has handed to writeImport, in the order of writing.
RECURSIVE IdsOf(_, _, _)
IdsOf(emitted, what, i) ==
    IF i > Len(emitted) THEN <<>>
    ELSE (IF emitted[i].ev = what THEN <<emitted[i].id>> ELSE <<>>)
         \o IdsOf(emitted, what, i + 1)

FileImports(file) == DeclsOfType(file, "ImportNode")

ImportById(file, id) ==
    LET imports == FileImports(file)
    IN  imports[CHOOSE k \in 1..Len(imports) : imports[k].id = id]

\* The import declarations written, in the order of writing.
WrittenImports(g, file) ==
    LET ids == IdsOf(g.emitted, "import", 1)
    IN  [k \in 1..Len(ids) |-> ImportById(file, ids[k])]

Modifier(importNode) ==
    IF importNode.public # Nil THEN "public"
    ELSE IF importNode.weak # Nil THEN "weak"
    ELSE "plain"

\* public before plain before weak
ModifierRank(importNode) ==
    CASE Modifier(importNode) = "public" -> 1
      [] Modifier(importNode) = "plain" -> 2
      [] Modifier(importNode) = "weak" -> 3

SameName(a, b) == AsString(a.name) = AsString(b.name)

\* C6: the imports are written in ascending order of their name, and among
\* imports of the same name a public import is written before a plain one,
\* and a plain one before a weak one.
C6_ImportsAscendingPublicFirst ==
    pc = "done" =>
        LET written == WrittenImports(f, fileNode)
        IN  \A i, j \in 1..Len(written) :
                i < j =>
                    \/ StrLess(AsString(written[i].name), AsString(written[j].name))
                    \/ /\ SameName(written[i], written[j])
                       /\ ModifierRank(written[i]) <= ModifierRank(written[j])

\* C7 as stated: in the sorted imports, of two imports with the same name
\* of which one carries a comment and the other none, the one with the
\* comment comes first.
C7_CommentedFirst ==
    pc = "done" =>
        LET sorted == sortedImports(fileNode)
        IN  \A i, j \in 1..Len(sorted) :
                /\ SameName(sorted[i], sorted[j])
                /\ importHasComment(sorted[i])
                /\ ~importHasComment(sorted[j])
                => i < j

\* C7, amended: in the sorted imports, of two imports with the same name and
\* the same modifier of which one carries a comment and the other none, the
\* one with the comment comes first.
C7_CommentedFirstSameModifier ==
    pc = "done" =>
        LET sorted == sortedImports(fileNode)
        IN  \A i, j \in 1..Len(sorted) :
                /\ SameName(sorted[i], sorted[j])
                /\ Modifier(sorted[i]) = Modifier(sorted[j])
                /\ importHasComment(sorted[i])
                /\ ~importHasComment(sorted[j])
                => i < j

\* The header has run on a file in which an import without a comment stands
\* before an import of the same name and modifier that has one: the sort
\* moved the second in front of the first.
C7_Witness_CommentedMovedFirst ==
    /\ pc = "done"
    /\ LET imports == FileImports(fileNode)
       IN  /\ Len(imports) >= 2
           /\ SameName(imports[1], imports[2])
           /\ Modifier(imports[1]) = Modifier(imports[2])
           /\ ~importHasComment(imports[1])
           /\ importHasComment(imports[2])
           /\ sortedImports(fileNode)[1] = imports[2]

\* C8: every import declaration of the file is written at most once, and one
\* that is not written carries no comment and has the name and the modifier
\* of one that is written.
C8_OnlyIdenticalImportsOmitted ==
    pc = "done" =>
        LET imports == FileImports(fileNode)
            ids == IdsOf(f.emitted, "import", 1)
            times(id) == Cardinality({ k \in 1..Len(ids) : ids[k] = id })
        IN  \A i \in 1..Len(imports) :
                \/ times(imports[i].id) = 1
                \/ /\ times(imports[i].id) = 0
                   /\ ~importHasComment(imports[i])
                   /\ \E j \in 1..Len(imports) :
                         /\ times(imports[j].id) = 1
                         /\ SameName(imports[i], imports[j])
                         /\ Modifier(imports[i]) = Modifier(imports[j])

-----------------------------------------------------------------------------
(* Claims about the file options of the header and about its sorts.        *)

FileOptions(file) == DeclsOfType(file, "OptionNode")

\* The name of an option with every field reference that has a '(' closed
\* by a ')', and the references joined by '.'.
RECURSIVE NormalizedFrom(_, _)
NormalizedFrom(refs, j) ==
    IF j > Len(refs) THEN <<>>
    ELSE (IF j > 1 THEN <<".">> ELSE <<>>)
         \o (IF refs[j].open # Nil
             THEN <<"(">> \o refs[j].name.val \o <<")">>
             ELSE refs[j].name.val)
         \o NormalizedFrom(refs, j + 1)

NormalizedName(optionNode) ==
    NormalizedFrom(SelectSeq(optionNode.name.parts,
                             LAMBDA p : p.type = "FieldReferenceNode"), 1)

IsCustom(optionNode) == NormalizedName(optionNode)[1] = "("

\* a <= b on strings
StrLeq(a, b) == ~StrLess(b, a)

\* C9: in the sorted file options every default option precedes every
\* custom option, and within each class the normalized names do not
\* decrease.
C9_DefaultBeforeCustomThenByName ==
    pc = "done" =>
        LET sorted == sortedOptions(fileNode)
        IN  \A i, j \in 1..Len(sorted) :
                i < j =>
                    /\ ~(IsCustom(sorted[i]) /\ ~IsCustom(sorted[j]))
                    /\ IsCustom(sorted[i]) = IsCustom(sorted[j])
                       => StrLeq(NormalizedName(sorted[i]), NormalizedName(sorted[j]))

\* The header has run on a file that has a custom option whose '(' is not
\* closed standing before a default option: the sort exchanged them.
C9_Witness_UnclosedCustomMovedLast ==
    /\ pc = "done"
    /\ LET options == FileOptions(fileNode)
       IN  /\ Len(options) >= 2
           /\ options[1].name.parts[1].open # Nil
           /\ options[1].name.parts[1].close = Nil
           /\ ~IsCustom(options[2])
           /\ sortedOptions(fileNode)[1] = options[2]
           /\ IdsOf(f.emitted, "option", 1)[1] = options[2].id

\* The imports are in the order of the sort keys, name, then
\* importSortOrder from high to low, then commented first, and none of them
\* has the name of the one before it and no comment.
ImportsSortedDeduplicated(imports) ==
    /\ \A i, j \in 1..Len(imports) :
          i < j =>
              \/ StrLess(AsString(imports[i].name), AsString(imports[j].name))
              \/ /\ SameName(imports[i], imports[j])
                 /\ \/ importSortOrder(imports[i]) > importSortOrder(imports[j])
                    \/ /\ importSortOrder(imports[i]) = importSortOrder(imports[j])
                       /\ importHasComment(imports[i]) \/ ~importHasComment(imports[j])
    /\ \A i \in 2..Len(imports) :
          ~(SameName(imports[i], imports[i - 1]) /\ ~importHasComment(imports[i]))

OptionsSorted(options) ==
    \A i, j \in 1..Len(options) :
        i < j =>
            /\ ~(IsCustom(options[i]) /\ ~IsCustom(options[j]))
            /\ IsCustom(options[i]) = IsCustom(options[j])
               => StrLeq(NormalizedName(options[i]), NormalizedName(options[j]))

-----------------------------------------------------------------------------
(* Claims about the order of writeFile.                                    *)

\* The declarations handed to the writers, in the order of writing.
DeclEvents(g) ==
    SelectSeq(g.emitted,
              LAMBDA e : e.ev \in {"syntax", "package", "import", "option", "decl"})

EventRank(e) ==
    CASE e.ev = "syntax" -> 1 [] e.ev = "package" -> 2 [] e.ev = "import" -> 3
      [] e.ev = "option" -> 4 [] e.ev = "decl" -> 5

TimesEvent(g, what, id) ==
    Cardinality({ k \in 1..Len(g.emitted) : g.emitted[k] = [ev |-> what, id |-> id] })

\* The declarations of the file that the header does not write, without the
\* empty declarations.
BodyDecls(file) ==
    SelectSeq(file.decls,
              LAMBDA d : d.type \notin {"PackageNode", "ImportNode", "OptionNode",
                                        "EmptyDeclNode"})

-----------------------------------------------------------------------------
(* Claims about the empty line above a declaration.                        *)

\* The top-level declarations the claim is about, as positions in the log:
\* the first import written, the first file option written and every other
\* declaration.
IsFirstOf(emitted, k, what) ==
    /\ emitted[k].ev = what
    /\ \A j \in 1..(k - 1) : emitted[j].ev # what

SeparatedDecls(emitted) ==
    { k \in 1..Len(emitted) :
        \/ IsFirstOf(emitted, k, "import")
        \/ IsFirstOf(emitted, k, "option")
        \/ emitted[k].ev = "decl" }

\* The length of the output when the writing of the declaration logged at k
\* began, and when the first token of that declaration was about to be
\* written.
GapOf(emitted, k) ==
    emitted[CHOOSE j \in 1..(k - 1) :
                /\ emitted[j].ev = "gap"
                /\ \A i \in (j + 1)..(k - 1) : emitted[i].ev # "gap"].id

StartOf(emitted, k) ==
    emitted[CHOOSE j \in (k + 1)..Len(emitted) :
                /\ emitted[j].ev = "start"
                /\ \A i \in (k + 1)..(j - 1) : emitted[i].ev # "start"].id

BodiesClosed(file) ==
    \A k \in 1..Len(file.decls) :
        file.decls[k].type = "ServiceNode" => file.decls[k].closeBrace # Nil

-----------------------------------------------------------------------------
(* Claims about the errors Run returns.                                    *)

\* The errors that the step has joined into err.
JoinedBy(g, h) == SubSeq(h.err, Len(g.err) + 1, Len(h.err))

IsPrefix(s, t) == Len(s) <= Len(t) /\ SubSeq(t, 1, Len(s)) = s

\* C17: a step in which a write to the failing sink of the caller is made,
\* by WriteString or by the copy of mergeState, joins the failure into err;
\* no step takes an error out of err, so Run returns it; and a WriteString
\* on a sink that works reaches the sink whatever err holds.
C17_SinkFailureReturned ==
    [][ /\ (op' = "WriteString" /\ f.sinkFails)
              => \E k \in 1..Len(JoinedBy(f, f')) : JoinedBy(f, f')[k] = "sink"
        /\ (op' = "mergeState" /\ f.sinkFails /\ other.out # <<>>)
              => \E k \in 1..Len(JoinedBy(f, f')) : JoinedBy(f, f')[k] = "sink"
        /\ IsPrefix(f.err, f'.err)
        /\ (op' = "WriteString" /\ ~f.sinkFails) => Len(f'.out) > Len(f.out)
      ]_vars

\* C18: mergeState keeps in err the errors err held before it and joins
\* into it every error recorded on the other formatter; saveState and the
\* writes on the other formatter leave err alone.
C18_SnapshotErrorsReturned ==
    [][ /\ op' = "mergeState" =>
              /\ IsPrefix(f.err, f'.err)
              /\ \A e \in { other.err[k] : k \in 1..Len(other.err) } :
                    Cardinality({ k \in 1..Len(JoinedBy(f, f')) : JoinedBy(f, f')[k] = e })
                      >= Cardinality({ k \in 1..Len(other.err) : other.err[k] = e })
        /\ op' \in {"saveState", "other.WriteString", "other.Out"} => f'.err = f.err
      ]_vars

-----------------------------------------------------------------------------
(* Claims about composite values.                                          *)

\* The value of the option of a file of LiteralFiles.
ValueOf(file) == file.decls[1].decls[1].val

\* The text of the output between its first '=' and its last ';': what was
\* written for the value of the only option of the file.
ValueText(out) ==
    LET from == CHOOSE i \in 1..Len(out) :
                    out[i] = "=" /\ \A j \in 1..(i - 1) : out[j] # "="
        to == CHOOSE i \in 1..Len(out) :
                  out[i] = ";" /\ \A j \in (i + 1)..Len(out) : out[j] # ";"
    IN  SubSeq(out, from + 1, to - 1)

\* C14: after Run on a file whose option has a non-empty message literal or
\* array literal as its value, the value is written on more than one line
\* if and only if the leading whitespace of its first element holds a
\* newline or a child of it other than the first has a leading comment or a
\* child other than the last has a trailing comment.
C14_ExpandedIffNewlineOrInteriorComments ==
    (pc = "done" /\ fileNode \in LiteralFiles) =>
        ( Contains(ValueText(f.out), NL)
          <=> \/ Contains(NodeInfo(ValueOf(fileNode).elements[1]).lws, NL)
              \/ hasInteriorComments(ValueOf(fileNode).elements) )

\* The value is an array literal with an element that is an array literal
\* itself: a value writeCompositeValueForArrayLiteral has no case for.
HasUnexpectedArrayValue(value) ==
    /\ value.type = "ArrayLiteralNode"
    /\ \E i \in 1..Len(value.elements) : value.elements[i].type = "ArrayLiteralNode"

\* C16: on a file with a node that writeNode has no case for, or with an
\* array literal nested in an array literal, Run does not abort; when it
\* has ended, an error is joined into err and the nodes after the
\* unexpected one are written, down to the '}' of the service and the
\* newline after it.
C16_UnexpectedNodeJoinedNotAborting ==
    ( \/ fileNode = UnexpectedFile
      \/ fileNode \in LiteralFiles /\ HasUnexpectedArrayValue(ValueOf(fileNode)) ) =>
        /\ pc # "panic"
        /\ pc = "done" =>
              /\ Len(f.err) > 0
              /\ Len(f.out) > 1
              /\ f.out[Len(f.out) - 1] = "}"
              /\ f.out[Len(f.out)] = NL

\* The compact options of the field of a file of ValueFiles.
OptionsOf(file) == file.decls[1].options.options

\* The text of the output from its first '[' to its last ']': what was
\* written for the compact options of the field.
ListText(out) ==
    LET from == CHOOSE i \in 1..Len(out) :
                    out[i] = "[" /\ \A j \in 1..(i - 1) : out[j] # "["
        to == CHOOSE i \in 1..Len(out) :
                  out[i] = "]" /\ \A j \in (i + 1)..Len(out) : out[j] # "]"
    IN  SubSeq(out, from, to)

\* The leading whitespace of the first option holds a newline, or an option
\* other than the first has a leading comment, or an option other than the
\* last has a trailing comment.
NewlineOrInteriorComments(options) ==
    \/ Contains(NodeInfo(options[1]).lws, NL)
    \/ \E i \in 2..Len(options) : Len(NodeInfo(options[i]).lead) > 0
    \/ \E i \in 1..(Len(options) - 1) : Len(NodeInfo(options[i]).trail) > 0

SingleTokenValues(options) ==
    \A i \in 1..Len(options) : IsTerminal(options[i].val)

C19_ColonAfterFieldName ==
    op = "writeMessageField" =>
        \E i \in 1..(Len(f.out) - 1) : f.out[i] = "k" /\ f.out[i + 1] = ":"

\* The characters of a text that are no space and no part of a comment
\* /*c*/.
TokenChars(text) == SelectSeq(text, LAMBDA c : c \notin {SP, "/", "*", "c"})

\* a=t,a=t,...,a=t with n options.
RECURSIVE JoinedOptions(_)
JoinedOptions(n) ==
    IF n = 1 THEN <<"a", "=", "t">>
    ELSE JoinedOptions(n - 1) \o <<",", "a", "=", "t">>

\* C20: once writeField has written a field whose compact options list has
\* two options or more and stands on one line, the tokens of the list are
\* its options with one ',' between each two and none after the last,
\* whether or not an option has a ',' of its own.
C20_OneSeparatorBetweenOptions ==
    ( /\ op = "writeField"
      /\ Len(OptionsOf(fileNode)) >= 2
      /\ ~Contains(ListText(f.out), NL) ) =>
        TokenChars(ListText(f.out))
            = <<"[">> \o JoinedOptions(Len(OptionsOf(fileNode))) \o <<"]">>

-----------------------------------------------------------------------------
(* Claims about terminals.                                                 *)

\* C21: what writeStringLiteral writes for a string literal is a literal in
\* double quotes: the raw text, with its first and its last character
\* replaced by '"' when they are single quotes and nothing else changed,
\* and with no '"' between its delimiters that is not escaped.
C21_WrittenLiteralIsDoubleQuoted ==
    op = "writeStringLiteral" =>
        LET raw == fileNode.decls[1].val
        IN  /\ Len(f.out) = Len(raw)
            /\ \A i \in 2..(Len(raw) - 1) : f.out[i] = raw[i]
            /\ f.out[1] = "\""
            /\ f.out[Len(raw)] = "\""
            /\ \A i \in 2..(Len(raw) - 1) : f.out[i] = "\"" => Escaped(f.out, i)

-----------------------------------------------------------------------------
(* Claims about the comment strategies.                                    *)

\* What was written without the spaces that a pending space became.
RECURSIVE TextsWritten(_, _)
TextsWritten(g, i) ==
    IF i > Len(g.out) THEN <<>>
    ELSE (IF g.mark[i] = "s" THEN <<>> ELSE <<g.out[i]>>) \o TextsWritten(g, i + 1)

\* The k-th of the segments that the newlines of text separate.
Segment(text, k) ==
    LET at == {i \in 1..Len(text) : text[i] = NL}
        before(i) == Cardinality({j \in at : j < i})
        inside == {i \in 1..Len(text) : text[i] # NL /\ before(i) = k - 1}
    IN  IF inside = {} THEN <<>>
        ELSE SubSeq(text, CHOOSE i \in inside : \A j \in inside : i <= j,
                          CHOOSE i \in inside : \A j \in inside : i >= j)

RECURSIVE SegmentsJoined(_, _)
SegmentsJoined(text, k) ==
    IF k > newlineCount(text) THEN TrimSpace(Segment(text, k))
    ELSE TrimSpace(Segment(text, k)) \o <<SP>> \o SegmentsJoined(text, k + 1)

InlineForm(text) ==
    IF HasPrefix(text, <<"/", "/">>)
    THEN <<"/", "*", SP>> \o TrimSpace(SubSeq(text, 3, Len(text))) \o <<SP, "*", "/">>
    ELSE SegmentsJoined(text, 1)

RECURSIVE InlineForms(_)
InlineForms(comments) ==
    IF comments = <<>> THEN <<>>
    ELSE (IF Head(comments).virtual THEN <<>> ELSE InlineForm(Head(comments).text))
         \o InlineForms(Tail(comments))

\* C22: writeInlineComments writes each non-virtual line comment as "/* T */",
\* T being its text without the leading "//" and trimmed at both ends, and
\* each block comment as its newline-separated segments, trimmed and joined
\* by single spaces; what it writes holds no newline.
C22_InlineCommentsOnOneLine ==
    op = "writeInlineComments" =>
        /\ \E start \in CommentStarts :
               TextsWritten(f, 1) = start.out \o InlineForms(other)
        /\ ~Contains(f.out, NL)

C22_Witness_LineAndSplitBlockComment ==
    /\ op = "writeInlineComments"
    /\ Len(other) = 2
    /\ other[1].text = <<"/", "*", SP, "c", NL, SP, "d", SP, "*", "/">>
    /\ other[2].text = <<"/", "/", SP, "c", SP>>
    /\ f.out = <<"/", "*", SP, "c", SP, "d", SP, "*", "/", SP,
                 "/", "*", SP, "c", SP, "*", "/">>

LineCommentTexts == { TrimSpace(text) : text \in { t \in CommentTexts : HasPrefix(t, <<"/", "/">>) } }

\* The output read from position i as a scanner reads it: a block comment
\* runs to its "*/", and a "//" starts a line comment, which is one of the
\* line comments of the source and is followed by a newline.
RECURSIVE LineCommentsEndTheirLineFrom(_, _)
LineCommentsEndTheirLineFrom(out, i) ==
    IF i >= Len(out) THEN TRUE
    ELSE IF out[i] = "/" /\ out[i + 1] = "*"
    THEN LET ends == {j \in (i + 2)..(Len(out) - 1) : out[j] = "*" /\ out[j + 1] = "/"}
         IN  IF ends = {} THEN TRUE
             ELSE LineCommentsEndTheirLineFrom(out,
                      (CHOOSE j \in ends : \A k \in ends : j <= k) + 2)
    ELSE IF out[i] = "/" /\ out[i + 1] = "/"
    THEN \E t \in LineCommentTexts :
             /\ i + Len(t) <= Len(out)
             /\ SubSeq(out, i, i + Len(t) - 1) = t
             /\ out[i + Len(t)] = NL
             /\ LineCommentsEndTheirLineFrom(out, i + Len(t) + 1)
    ELSE LineCommentsEndTheirLineFrom(out, i + 1)

LineCommentsEndTheirLine(out) == LineCommentsEndTheirLineFrom(out, 1)

\* C30: no token written after a comment is swallowed by it: a comment that
\* the multiline or the trailing-end strategy writes in "//" style is followed
\* by a newline before anything else is written, and a line comment that
\* writeInlineComments rewrites to block style holds "*/" only as its last
\* two characters.
C30_NoTokenSwallowedByComment ==
    /\ op \in {"writeMultilineComments", "writeTrailingEndComments"} =>
           LineCommentsEndTheirLine(f.out)
    /\ (/\ op = "writeInlineComments"
        /\ Cardinality({i \in 1..Len(other) : ~other[i].virtual}) = 1
        /\ \E i \in 1..Len(other) : IsLineComment(other[i])) =>
           \E start \in CommentStarts :
               LET n == Len(TextsWritten(f, 1))
                   w == SubSeq(TextsWritten(f, 1), Len(start.out) + 1, n)
               IN  /\ SubSeq(TextsWritten(f, 1), 1, Len(start.out)) = start.out
                   /\ \A i \in 1..(Len(w) - 1) :
                          (w[i] = "*" /\ w[i + 1] = "/") => i = Len(w) - 1

-----------------------------------------------------------------------------
(* Claims about the first token of a declaration.                          *)

\* What the call has written.
StartWritten == SubSeq(f.out, Len(other.before.out) + 1, Len(f.out))

\* The empty lines the call has written above the token: the output before
\* the call ends a line, so each newline above the token is an empty line.
EmptyLinesAbove ==
    LET at == CHOOSE i \in 1..Len(StartWritten) : StartWritten[i] = "x"
    IN  Cardinality({ i \in 1..(at - 1) : StartWritten[i] = NL })

-----------------------------------------------------------------------------
(* Claims about the sub-groups of a column-aligned group.                  *)

RowWidth(row) == row.typeName + row.fieldName

\* The rows at which a sub-group other than the first starts.
GroupStarts ==
    { other.groups[k][1].id : k \in { j \in 2..Len(other.groups) : other.groups[j] # <<>> } }

AllSmall == \A i \in 1..Len(other.fields) : RowWidth(other.fields[i]) <= smallSize

\* C24 as stated: no sub-group starts at a row narrower than the threshold
\* 40, and a group whose rows are all at most 40 wide comes back as one
\* sub-group.
C24_NoSplitAtSmallRow ==
    op = "splitSegmentedFields" =>
        /\ \A i \in GroupStarts : ~(RowWidth(other.fields[i]) < smallSize)
        /\ AllSmall => Len(other.groups) = 1

\* C24, amended: no sub-group starts at a row when that row and the row
\* before it are both at most 40 wide, and a group whose rows are all at
\* most 40 wide comes back as one sub-group.
C24_NoSplitBetweenSmallRows ==
    op = "splitSegmentedFields" =>
        /\ \A i \in GroupStarts :
               ~(/\ RowWidth(other.fields[i]) <= smallSize
                 /\ RowWidth(other.fields[i - 1]) <= smallSize)
        /\ AllSmall => Len(other.groups) = 1

\* Rows 10, 40 and 10 wide, a ratio of 4 between neighbours, are one group.
C24_Witness_SmallRowsOneGroup ==
    /\ op = "splitSegmentedFields"
    /\ Len(other.fields) = 3
    /\ RowWidth(other.fields[1]) = 10
    /\ RowWidth(other.fields[2]) = 40
    /\ RowWidth(other.fields[3]) = 10
    /\ Len(other.groups) = 1

RECURSIVE Concatenated(_)
Concatenated(groups) ==
    IF groups = <<>> THEN <<>> ELSE Head(groups) \o Concatenated(Tail(groups))

\* C27: the sub-groups are contiguous runs of the input in source order,
\* none is empty unless the input is, and together they are the input: no
\* row is dropped, duplicated or moved.
C27_SubGroupsPartitionTheInput ==
    op = "splitSegmentedFields" =>
        /\ Concatenated(other.groups) = other.fields
        /\ other.fields # <<>> => \A k \in 1..Len(other.groups) : other.groups[k] # <<>>

C27_Witness_SplitInTwo ==
    /\ op = "splitSegmentedFields"
    /\ Len(other.fields) = 3
    /\ Len(other.groups) = 2
    /\ Len(other.groups[1]) = 2
    /\ other.groups[2] = <<other.fields[3]>>

-----------------------------------------------------------------------------
(* Claims about lines.                                                     *)

\* What a call of P leaves of the indentation: pendingIndent is 0 and
\* indent has moved by one level at most, in the direction of pendingIndent.
IndentMovedByPending ==
    /\ f'.pendingIndent = 0
    /\ f'.indent = IF f.pendingIndent > 0 THEN f.indent + 1
                   ELSE IF f.pendingIndent < 0 /\ f.indent # 0 THEN f.indent - 1
                   ELSE f.indent

\* The call has written text after nothing or after the current
\* indentation, the latter only for a text that is not all whitespace, and
\* then a newline.
LineWritten(text) ==
    \E ind \in { <<>>, Repeat(<<SP, SP>>, f.indent) } :
        /\ ind # <<>> => TrimSpace(other') # <<>>
        /\ TextsWritten(f', 1) = TextsWritten(f, 1) \o ind \o text \o <<NL>>

\* C25 as stated: P(text) writes the current indentation only when text is
\* not all whitespace, then text, then a newline; afterwards pendingIndent
\* is 0 and indent has moved by +1 if pendingIndent was positive, by -1 if
\* it was negative and indent was not 0, and not at all if it was zero.
C25_LineThenOneLevel ==
    [][op' = "P" => LineWritten(other') /\ IndentMovedByPending]_vars

\* C25, amended: as stated, except that a text that is all whitespace is
\* not written: P writes the newline alone.
C25_LineOfVisibleTextThenOneLevel ==
    [][op' = "P" =>
          /\ LineWritten(IF TrimSpace(other') = <<>> THEN <<>> ELSE other')
          /\ IndentMovedByPending]_vars

\* Two opening runes on one line: P has moved the indentation by one level.
C25_Witness_TwoOpenRunesOneLevel ==
    /\ op = "P"
    /\ f.out = <<"{", "{", NL>>
    /\ f.indent = 1
    /\ f.pendingIndent = 0

-----------------------------------------------------------------------------
(* Claims about the order of the imports.                                  *)

\* C26: the comparison the imports are sorted by is a strict order: less(a, b)
\* and less(b, a) never both hold, less(a, a) never holds, and less is
\* transitive.
C26_ImportLessIsStrictOrder ==
    op = "importLess" =>
        LET n == Len(other.imports)
            less(i, j) == other.less[i][j]
        IN  /\ \A i, j \in 1..n : ~(less(i, j) /\ less(j, i))
            /\ \A i \in 1..n : ~less(i, i)
            /\ \A i, j, k \in 1..n : (less(i, j) /\ less(j, k)) => less(i, k)

-----------------------------------------------------------------------------
(* Claims about the options of a list written on one line.                 *)

\* The options written between the '[' and the ']': every option of the
\* model is  a = value , and no value and no comment holds a '='.
OptionsWritten(out) == Cardinality({ i \in 1..Len(ListText(out)) : ListText(out)[i] = "=" })

\* C29: once writeField has written a field whose compact options list is
\* not expanded (no newline before its first option, no interior comment),
\* every option of the list has been written once between the '[' and the
\* ']', the options after one whose value is a compound string included.
C29_EveryOptionWrittenOnce ==
    ( /\ op = "writeField"
      /\ Len(OptionsOf(fileNode)) >= 1
      /\ ~NewlineOrInteriorComments(OptionsOf(fileNode)) ) =>
        OptionsWritten(f.out) = Len(OptionsOf(fileNode))

-----------------------------------------------------------------------------
(* Claims about the lines of a block comment.                              *)

\* The continuation lines of a comment: those between its first line and
\* its closing line.
Continuations(text) == 2..(Len(SplitLines(text)) - 1)

Column(line) == computeIndent(line).indent

LeastColumn(text) ==
    CHOOSE m \in { Column(SplitLines(text)[i]) : i \in Continuations(text) } :
        \A i \in Continuations(text) : m <= Column(SplitLines(text)[i])

\* C28: writeComment takes the least indentation of the continuation lines
\* from each of them, a tab counting as the advance to the next multiple of
\* 8: unindent leaves a line whose indentation is the former one less that
\* least, and two continuation lines are as far apart in the output as in
\* the source.
C28_ContinuationLinesKeepTheirDistance ==
    op = "writeComment" =>
        /\ \A i \in Continuations(other) :
               Column(unindent(SplitLines(other)[i], LeastColumn(other)))
                   = Column(SplitLines(other)[i]) - LeastColumn(other)
        /\ \A i, j \in Continuations(other) :
               Column(SplitLines(f.out)[i]) - Column(SplitLines(f.out)[j])
                   = Column(SplitLines(other)[i]) - Column(SplitLines(other)[j])

=============================================================================
